---- MODULE Spec2Model ----
(***************************************************************************)
(* cargo-cult: the interactive terminal session engine.                    *)
(*                                                                         *)
(*   Spec         the output pipeline: AsyncWriter (app.rs) over its Out   *)
(*                sink (TerminalHandle of ssh_server.rs, or Stdout)        *)
(*   SpecDecoder  the input decoder channel_data_to_terminal_codes         *)
(*   SpecSelect   the scrollable single-select of App::single_select       *)
(*   SpecPrompt   the line prompt of App::prompt                           *)
(*   SpecRelay    the session relay SSHForwardingSession::call, with the   *)
(*                writer it prints through                                 *)
(*   SpecSession  the session controller App::run (menu, gallery, relay,   *)
(*                submission form, exit) over the parts above              *)
(*                                                                         *)
(* The parts share no state in the program (a queue or a channel sits       *)
(* between them), so each has its own specification over the one set of    *)
(* variables; the variables of the other parts stay at their initial       *)
(* values.  SpecSession runs them together under the controller: there the *)
(* controller's and the relay's prints go through the writer's queue, and  *)
(* what a select or a prompt prints is recorded in shown and rendered.     *)
(***************************************************************************)
EXTENDS Integers, Sequences, FiniteSets, TLC

VARIABLES
    \* ---- output pipeline -------------------------------------------------
    outKind,     \* which Out the App was built with: "ssh" or "stdio"
    sender,      \* AsyncWriter.sender: "some" or "none" (dropped by wait)
    queue,       \* the unbounded channel: commands sent and not yet received
    worker,      \* the spawned worker task: "recv", "busy", "exited", "panicked"
    cur,         \* the message the worker holds while it is in out.write/out.flush
    sink,        \* the bytes Out holds until the next flush (TerminalHandle.sink)
    delivered,   \* the transport deliveries so far (handle.data calls), in order
    written,     \* history: every byte Out accepted from the worker, in order
    submitted,   \* history: the commands the channel accepted, in order
    applied,     \* history: the commands the worker has applied to Out, in order
    producer,    \* the producer (the App task): "run", "waiting", "done", "panicked"
    lastSubmit,  \* outcome of the last write()/flush() call: "none", "ok", "send_error", "panic"
    attempts,    \* number of write()/flush() calls made so far
    sawWorker,   \* history: the worker's state when the last call was made
    pendingAtWait, \* history: commands not yet applied when wait() was called (-1 before)
    \* ---- input decoder ---------------------------------------------------
    data,        \* the byte chunk handed to the decoder
    events,      \* the Vec<TerminalCode> the decoder returned for it
    decPc,       \* "ready" (chunk not decoded yet) or "decoded"
    \* ---- single select ---------------------------------------------------
    options,     \* per option, its number of lines (pieces of split("\r\n"))
    row_height,  \* TerminalParams.row_height
    overflowChecks, \* the build: TRUE panics on usize overflow, FALSE wraps
    index,       \* the highlighted option (0-based, as in the code)
    scroll_pos,  \* first buffer line of the visible slice (0-based)
    selPc,       \* "start", "waiting" (in recv), "returned", "exiting", "panicked"
    shown,       \* the lines the last render printed (the visible slice)
    moveUp,      \* rows the last redraw moved the cursor up (-1: first render)
    input,       \* the event channel (mpsc::channel(1)): TerminalCodes sent, not yet received
    inputOpen,   \* the channel's sender still exists
    selResult,   \* the index single_select returned (-1: none)
    \* ---- line prompt ----------------------------------------------------
    required,    \* the prompt's `required` argument
    inputText,   \* the prompt's local `input`: the text entered so far (bytes)
    first_pass,  \* the prompt's local `first_pass`
    promptPc,    \* "start", "waiting" (in recv), "returned", "exiting"
    rendered,    \* what the last render printed after "> " (<<"none">> before)
    taken,       \* history: the key codes the prompt received, in order
    promptResult, \* the String prompt returned (<<>> until it has returned)
    typist,      \* who types: "free" (any keys) or a script: "jane", "cafe", "submitter", "visitor"
    \* ---- exit -----------------------------------------------------------
    exit_fn_once, \* App.exit_fn_once: "some" or "none" (taken)
    exitCalls,   \* history: how many times the exit callback was invoked
    \* ---- session relay --------------------------------------------------
    relayPc,     \* "none", "idle" (docker_session entered), "loop" (in select!),
                 \* "sending" (in channel.data), "done"
    relayHeld,   \* the event the relay took and is sending
    forwarded,   \* the data messages sent into the remote channel, in order
    relayTaken,  \* history: the events the relay took from the event channel
    relayResult, \* how the relay ended: "none", "exit", "timeout", "error", "panic"
    remoteOpen,  \* the remote channel still delivers messages (FALSE once the connection is dropped)
    remoteSent,  \* the payloads of the Data messages the remote command has sent, in order
    paramsLock,  \* who holds the TerminalParams mutex: "free" or "relay"
    \* ---- session controller ---------------------------------------------
    appPc,       \* where App::run is: "start", "menu", "gallery_get", "gallery",
                 \* "relay", "form_type", "form", "create", "exit", "panicked"
    formIdx,     \* the prompt of the submission form that is open (0: none)
    createResult, \* what the data store's create returned: "none", "ok", "err"
    sent,        \* number of events typed in this session
    \* ---- event feed ------------------------------------------------------
    feedPending, \* the events of the chunk being sent that are not yet sent
    arrived,     \* history: every event decoded from the chunks, in arrival order
    consumed,    \* history: every event taken from the channel, with who took it
    reader,      \* who reads App.input: "controller", "relay", "exited", "gone"
    \* ---- registry server (one listener, several connections) ------------
    nextId,      \* Server.id of the listening server: the id the next client gets
    id,          \* Server.id of each connection's handler (-1: not connected)
    clients,     \* Server.clients: for each id in the map, the session whose sender it holds
    lock,        \* who holds the Mutex of clients: a session's handler, or "free"
    handlerPc,   \* where each connection's handler is
    handlerPending, \* the events of the data message a handler has still to send
    clientChan,  \* each session's event channel (capacity 1)
    channels,    \* the number of session channels each connection has open
    \* ---- fixed_width -----------------------------------------------------
    wrapInput,   \* the `input` of fixed_width (bytes)
    wrapWidth,   \* the `width` of fixed_width
    wrapOutput,  \* the String fixed_width returned (bytes)
    wrapPc       \* "input" (the arguments are being made), "done" (it returned)

pipeVars == <<outKind, sender, queue, worker, cur, sink, delivered, written,
              submitted, applied, producer, lastSubmit, attempts, sawWorker,
              pendingAtWait>>

decVars == <<data, events, decPc>>

selVars == <<options, row_height, overflowChecks, index, scroll_pos, selPc,
             shown, moveUp, input, inputOpen, selResult>>

promptVars == <<required, inputText, first_pass, promptPc, rendered, taken,
                promptResult, typist>>

exitVars == <<exit_fn_once, exitCalls>>

relayVars == <<relayPc, relayHeld, forwarded, relayTaken, relayResult,
               remoteOpen, remoteSent, paramsLock>>

appVars == <<appPc, formIdx, createResult, sent>>

feedVars == <<feedPending, arrived, consumed, reader>>

regVars == <<nextId, id, clients, lock, handlerPc, handlerPending, clientChan,
             channels>>

wrapVars == <<wrapInput, wrapWidth, wrapOutput, wrapPc>>

vars == <<pipeVars, decVars, feedVars, regVars, wrapVars, selVars, promptVars, exitVars, relayVars,
          appVars>>

\* What an action of one part leaves alone: the other parts.
notPipe == <<decVars, feedVars, regVars, wrapVars, selVars, promptVars, exitVars, relayVars, appVars>>
notDecoder == <<pipeVars, feedVars, regVars, wrapVars, selVars, promptVars, exitVars, relayVars, appVars>>
notSelect == <<pipeVars, decVars, feedVars, regVars, wrapVars, promptVars, exitVars, relayVars, appVars>>

\* The select's own variables (selVars without the event channel, which every
\* reader of App.input shares).
selState == <<options, row_height, overflowChecks, index, scroll_pos, selPc,
              shown, moveUp, selResult>>
notPrompt == <<pipeVars, decVars, feedVars, regVars, wrapVars, selState, exitVars, relayVars, appVars>>

\* What the event feed leaves alone: all but the event channel.
notFeed == <<pipeVars, decVars, regVars, wrapVars, selState, promptVars, exitVars,
             relayVars, appVars>>

\* What the registry server leaves alone: the session's parts.
notRegistry == <<pipeVars, decVars, feedVars, wrapVars, selVars, promptVars,
                 exitVars, relayVars, appVars>>

\* What the text wrap leaves alone: everything else.
notWrap == <<pipeVars, decVars, feedVars, regVars, selVars, promptVars,
             exitVars, relayVars, appVars>>

\* What the relay leaves alone: the decoder, the select, the prompt, the exit
\* callback, and of the writer everything but the channel it submits to.
notRelay == <<decVars, feedVars, regVars, wrapVars, selState, promptVars, exitVars, appVars, outKind,
              sender, worker, cur, sink, delivered, written, applied,
              lastSubmit, attempts, sawWorker, pendingAtWait>>

\* ------------------------------------------------------------------------
\* Bounds of the model
\* ------------------------------------------------------------------------
MaxCmds == 5
MaxChunkLen == 3
MaxOptions == 3
MaxOptLines == 2
MaxRows == 5
MaxRunaway == 3
MaxKeys == 4
MaxRemote == 2
MaxRelayKeys == 3
MaxLag == 2
MaxTyped == 3
MaxArrived == 4
MaxText == 4
MaxChannels == 2
MaxWidth == 5

\* ------------------------------------------------------------------------
\* Helpers on sequences
\* ------------------------------------------------------------------------
IsPrefix(s, t) ==
    /\ Len(s) <= Len(t)
    /\ SubSeq(t, 1, Len(s)) = s

\* ========================================================================
\* OUTPUT PIPELINE
\* ========================================================================

\* The payloads producers write (byte buffers).
Payloads == { <<1>>, <<2, 3>> }

\* enum TerminalHandleMsg { Flush, Data(Vec<u8>) }
Data(c) == [tag |-> "Data", c |-> c]
Flush == [tag |-> "Flush", c |-> <<>>]
NoMsg == [tag |-> "None", c |-> <<>>]

\* The receiver half lives in the worker's future: it exists while the worker
\* runs and is dropped when the worker returns or unwinds.
RecvAlive == worker \in {"recv", "busy"}

InitPipe ==
    /\ outKind \in {"ssh", "stdio"}
    /\ sender = "some"
    /\ queue = <<>>
    /\ worker = "recv"
    /\ cur = NoMsg
    /\ sink = <<>>
    /\ delivered = <<>>
    /\ written = <<>>
    /\ submitted = <<>>
    /\ applied = <<>>
    /\ producer = "run"
    /\ lastSubmit = "none"
    /\ attempts = 0
    /\ sawWorker = "recv"
    /\ pendingAtWait = -1
    /\ exit_fn_once = "some"
    /\ exitCalls = 0

\* A bounded channel instead of the unbounded one: send waits for room.
WriterWriteBounded(c) ==
    /\ producer = "run"
    /\ attempts < MaxCmds
    /\ Len(queue) < 1
    /\ attempts' = attempts + 1
    /\ sawWorker' = worker
    /\ IF RecvAlive
       THEN /\ queue' = Append(queue, Data(c))
            /\ submitted' = Append(submitted, Data(c))
            /\ lastSubmit' = "ok"
            /\ producer' = producer
       ELSE /\ lastSubmit' = "panic"
            /\ producer' = "panicked"
            /\ UNCHANGED <<queue, submitted>>
    /\ UNCHANGED <<outKind, sender, worker, cur, sink, delivered, written,
                   applied, pendingAtWait>>
    /\ UNCHANGED notPipe

\* impl Write for AsyncWriter: write(). send() on the unbounded channel is
\* synchronous and never waits; on a closed channel it returns Err, which the
\* unwrap() turns into a panic of the calling task.
WriterWrite(c) ==
    /\ producer = "run"
    /\ attempts < MaxCmds
    /\ attempts' = attempts + 1
    /\ sawWorker' = worker
    /\ IF RecvAlive
       THEN /\ queue' = Append(queue, Data(c))
            /\ submitted' = Append(submitted, Data(c))
            /\ lastSubmit' = "ok"
            /\ producer' = producer
       ELSE /\ lastSubmit' = "panic"
            /\ producer' = "panicked"
            /\ UNCHANGED <<queue, submitted>>
    /\ UNCHANGED <<outKind, sender, worker, cur, sink, delivered, written,
                   applied, pendingAtWait>>
    /\ UNCHANGED notPipe

\* impl Write for AsyncWriter: flush(). On a closed channel the send error is
\* mapped to io::Error("Send Error") and returned.
WriterFlush ==
    /\ producer = "run"
    /\ attempts < MaxCmds
    /\ attempts' = attempts + 1
    /\ sawWorker' = worker
    /\ IF RecvAlive
       THEN /\ queue' = Append(queue, Flush)
            /\ submitted' = Append(submitted, Flush)
            /\ lastSubmit' = "ok"
       ELSE /\ lastSubmit' = "send_error"
            /\ UNCHANGED <<queue, submitted>>
    /\ UNCHANGED <<outKind, sender, worker, cur, sink, delivered, written,
                   applied, producer, pendingAtWait>>
    /\ UNCHANGED notPipe

\* AsyncWriter::worker, `recv.recv().await` returning Some(msg).
WorkerRecv ==
    /\ worker = "recv"
    /\ queue # <<>>
    /\ cur' = Head(queue)
    /\ queue' = Tail(queue)
    /\ worker' = "busy"
    /\ UNCHANGED <<outKind, sender, sink, delivered, written, submitted,
                   applied, producer, lastSubmit, attempts, sawWorker,
                   pendingAtWait>>
    /\ UNCHANGED notPipe

\* The worker leaving its loop although commands are still queued.
WorkerExitEarly ==
    /\ worker = "recv"
    /\ sender = "none"
    /\ worker' = "exited"
    /\ UNCHANGED <<outKind, sender, queue, cur, sink, delivered, written,
                   submitted, applied, producer, lastSubmit, attempts,
                   sawWorker, pendingAtWait>>
    /\ UNCHANGED notPipe

\* AsyncWriter::worker, `recv.recv().await` returning None: every sender is
\* dropped and the queue is empty; the loop ends and the task returns.
WorkerExit ==
    /\ worker = "recv"
    /\ queue = <<>>
    /\ sender = "none"
    /\ worker' = "exited"
    /\ UNCHANGED <<outKind, sender, queue, cur, sink, delivered, written,
                   submitted, applied, producer, lastSubmit, attempts,
                   sawWorker, pendingAtWait>>
    /\ UNCHANGED notPipe

\* How many bytes of buf one Out::write call may accept.  TerminalHandle::write
\* extends its sink by all of buf.  Stdout is only bound by the contract of
\* io::Write::write: Ok(n) with n <= buf.len() (n >= 1 for a non-empty buf
\* that is not an error).
OutWriteCounts(buf) ==
    IF outKind = "ssh" THEN {Len(buf)} ELSE 1..Len(buf)

\* Whether the Out call the worker is in can return Err.  TerminalHandle::write
\* cannot; TerminalHandle::flush unwraps handle.data(), Stdout can fail in both.
OutCanFail ==
    \/ outKind = "stdio"
    \/ cur.tag = "Flush"

SinkKeptAfterFlush == sink

\* TerminalHandle::flush: sink.clear() after the delivery.
SinkAfterFlush == <<>>

\* AsyncWriter::worker, the match on the received message: Data(c) is handed
\* to out.write (the returned count is discarded), Flush to out.flush.  An Err
\* from either is unwrapped: the task panics, which drops the receiver and
\* with it every queued message.
WorkerApply ==
    /\ worker = "busy"
    /\ \/ /\ cur.tag = "Data"
          /\ \E n \in OutWriteCounts(cur.c) :
                /\ sink' = sink \o SubSeq(cur.c, 1, n)
                /\ written' = written \o SubSeq(cur.c, 1, n)
          /\ applied' = Append(applied, cur)
          /\ worker' = "recv"
          /\ cur' = NoMsg
          /\ UNCHANGED <<delivered, queue>>
       \/ /\ cur.tag = "Flush"
          /\ delivered' = Append(delivered, sink)
          /\ sink' = SinkAfterFlush
          /\ applied' = Append(applied, cur)
          /\ worker' = "recv"
          /\ cur' = NoMsg
          /\ UNCHANGED <<written, queue>>
       \/ /\ OutCanFail
          /\ worker' = "panicked"
          /\ cur' = NoMsg
          /\ queue' = <<>>
          /\ UNCHANGED <<sink, delivered, written, applied>>
    /\ UNCHANGED <<outKind, sender, submitted, producer, lastSubmit,
                   attempts, sawWorker, pendingAtWait>>
    /\ UNCHANGED notPipe

\* AsyncWriter::wait, up to the await: take the worker handle, drop the sender.
WriterWait ==
    /\ producer = "run"
    /\ sender = "some"
    /\ sender' = "none"
    /\ producer' = "waiting"
    /\ pendingAtWait' = Len(queue) + (IF worker = "busy" THEN 1 ELSE 0)
    /\ UNCHANGED <<outKind, queue, worker, cur, sink, delivered, written,
                   submitted, applied, lastSubmit, attempts, sawWorker>>
    /\ UNCHANGED notPipe

WriterJoinNoWait ==
    /\ producer = "waiting"
    /\ producer' = "done"
    /\ UNCHANGED <<outKind, sender, queue, worker, cur, sink, delivered,
                   written, submitted, applied, lastSubmit, attempts,
                   sawWorker, pendingAtWait>>
    /\ UNCHANGED notPipe

\* AsyncWriter::wait, `worker.await.unwrap()`: resumes when the worker task
\* has ended; a JoinError (the worker panicked) is unwrapped into a panic.
WriterJoin ==
    /\ producer = "waiting"
    /\ worker \in {"exited", "panicked"}
    /\ producer' = IF worker = "exited" THEN "done" ELSE "panicked"
    /\ UNCHANGED <<outKind, sender, queue, worker, cur, sink, delivered,
                   written, submitted, applied, lastSubmit, attempts,
                   sawWorker, pendingAtWait>>
    /\ UNCHANGED notPipe

\* App::exit after wait() has returned: `if let Some(exit) =
\* self.exit_fn_once.take() { exit() }`.  The callback of the SSH server
\* spawns the channel's eof and close and returns, and exit() goes on to its
\* yield loop; the callback of the local terminal calls process::exit(0).
ExitCallback ==
    /\ producer = "done"
    /\ IF exit_fn_once = "some"
       THEN /\ exit_fn_once' = "none"
            /\ exitCalls' = exitCalls + 1
            /\ producer' = IF outKind = "stdio" THEN "terminated" ELSE "yielding"
       ELSE /\ producer' = "yielding"
            /\ UNCHANGED <<exit_fn_once, exitCalls>>
    /\ UNCHANGED <<outKind, sender, queue, worker, cur, sink, delivered,
                   written, submitted, applied, lastSubmit, attempts,
                   sawWorker, pendingAtWait>>
    /\ UNCHANGED <<decVars, feedVars, regVars, wrapVars, selVars, promptVars, relayVars, appVars>>

\* App::exit, `loop { tokio::task::yield_now().await; }`: one turn.
ExitYield ==
    /\ producer = "yielding"
    /\ UNCHANGED vars

\* ========================================================================
\* INPUT DECODER
\* ========================================================================

\* The bytes chunks are drawn from: the control bytes the decoder names
\* (3, 8, 13, 27), two it does not (0, 31), 127, '[' (91), 'A' 'B' 'C'
\* (65..67), a space (32) and two non-ASCII bytes (128, 255).
Bytes == {0, 3, 8, 13, 27, 31, 32, 65, 66, 67, 91, 127, 128, 255}

\* struct TerminalCode { ascii_code: Option<AsciiCode>, raw_bytes: Vec<u8> };
\* ascii_code is <<"None">> or the variant's name, with its byte for Char.
TerminalCode(ascii_code, raw_bytes) ==
    [ascii_code |-> ascii_code, raw_bytes |-> raw_bytes]

\* u8::is_ascii
IsAscii(b) == b <= 127

ControlCodeWithout8(b) ==
    CASE b = 3 -> <<"EoT">>
      [] b = 13 -> <<"Enter">>
      [] OTHER -> <<"Drop">>

\* The inner match of the 0..=31 arm: the code pushed for a control byte,
\* <<"Drop">> where nothing is pushed.
ControlCode(b) ==
    CASE b = 3 -> <<"EoT">>
      [] b = 8 -> <<"Backspace">>
      [] b = 13 -> <<"Enter">>
      [] OTHER -> <<"Drop">>

PrintableAsciiOnly(b) ==
    IF IsAscii(b) THEN << TerminalCode(<<"Char", b>>, <<b>>) >> ELSE <<>>

\* The `_` arm: every byte no earlier arm matched is pushed as Char(byte).
PrintableEvents(b) == << TerminalCode(<<"Char", b>>, <<b>>) >>

\* `while i < data.len() && data[i].is_ascii() { command.push(data[i]); i += 1 }`
\* (indices are 1-based here: the code's i is i - 1).
RECURSIVE CsiScan(_, _)
CsiScan(chunk, i) ==
    IF i <= Len(chunk) /\ IsAscii(chunk[i]) THEN CsiScan(chunk, i + 1) ELSE i

\* The index after the CSI arm: the scan, then one more byte if one is left.
CsiEnd(chunk, i) ==
    LET stop == CsiScan(chunk, i + 2)
    IN  IF stop <= Len(chunk) THEN stop + 1 ELSE stop

\* `match command.as_slice()`: [65] is ArrowUp, [66] ArrowDown, the rest None.
CsiCode(command) ==
    CASE command = <<65>> -> <<"ArrowUp">>
      [] command = <<66>> -> <<"ArrowDown">>
      [] OTHER -> <<"None">>

\* The while loop of channel_data_to_terminal_codes from index i on.
RECURSIVE DecodeFrom(_, _, _)
DecodeFrom(chunk, i, result) ==
    IF i > Len(chunk) THEN result
    ELSE IF chunk[i] = 27 /\ i + 1 <= Len(chunk) /\ chunk[i + 1] = 91
    THEN LET e == CsiEnd(chunk, i)
         IN  DecodeFrom(chunk, e,
                Append(result, TerminalCode(CsiCode(SubSeq(chunk, i + 2, e - 1)),
                                            SubSeq(chunk, i, e - 1))))
    ELSE IF chunk[i] = 127
    THEN DecodeFrom(chunk, i + 1,
            Append(result, TerminalCode(<<"Backspace">>, <<chunk[i]>>)))
    ELSE IF chunk[i] <= 31
    THEN DecodeFrom(chunk, i + 1,
            IF ControlCode(chunk[i]) = <<"Drop">> THEN result
            ELSE Append(result, TerminalCode(ControlCode(chunk[i]), <<chunk[i]>>)))
    ELSE DecodeFrom(chunk, i + 1, result \o PrintableEvents(chunk[i]))

channel_data_to_terminal_codes(chunk) == DecodeFrom(chunk, 1, <<>>)

InitDecoder ==
    /\ data = <<>>
    /\ events = <<>>
    /\ decPc = "ready"

\* One more byte of the chunk the transport is about to hand over (the bytes
\* stdin().read_buf / the SSH data message will carry).
ReceiveByte(b) ==
    /\ decPc = "ready"
    /\ Len(data) < MaxChunkLen
    /\ data' = Append(data, b)
    /\ UNCHANGED <<events, decPc>>
    /\ UNCHANGED notDecoder

\* Keystrokes that reach the transport together: an ArrowUp and an ArrowDown,
\* an ArrowDown and an Enter, 'A' typed after an ArrowDown, an ArrowUp and a
\* non-ASCII byte.
TypedTogether ==
    { <<27, 91, 65, 27, 91, 66>>, <<27, 91, 66, 13>>, <<27, 91, 66, 65>>,
      <<27, 91, 65, 255>> }

\* The chunk the transport is about to hand over is a whole burst of
\* keystrokes.
ReceiveTyped(chunk) ==
    /\ decPc = "ready"
    /\ data = <<>>
    /\ data' = chunk
    /\ UNCHANGED <<events, decPc>>
    /\ UNCHANGED notDecoder

\* The reader task / the data handler: decode the chunk it was handed.
DecodeChunk ==
    /\ decPc = "ready"
    /\ events' = channel_data_to_terminal_codes(data)
    /\ decPc' = "decoded"
    /\ UNCHANGED data
    /\ UNCHANGED notDecoder

\* The reader task: buf.clear(), ready for the next chunk.
ClearChunk ==
    /\ decPc = "decoded"
    /\ data' = <<>>
    /\ events' = <<>>
    /\ decPc' = "ready"
    /\ UNCHANGED notDecoder

\* ========================================================================
\* SINGLE SELECT
\* ========================================================================

\* usize::MAX.  It is 2^64 - 1 in the build; 2^31 - 1, the largest integer
\* TLC represents, stands in for it (it is only compared with an index and
\* truncated to u16, and 2^31 - 1 and 2^64 - 1 agree on both).
USIZE_MAX == 2147483647

\* a - b on usize in a build without overflow checks.
WrappingSub(a, b) == IF a >= b THEN a - b ELSE USIZE_MAX - (b - a) + 1

\* usize::saturating_sub
SaturatingSub(a, b) == IF a >= b THEN a - b ELSE 0

Min(a, b) == IF a <= b THEN a ELSE b

\* The event the decoder makes of one keystroke (a chunk that decodes to one
\* TerminalCode).
KeyEvent(keystroke) == channel_data_to_terminal_codes(keystroke)[1]

\* The events the select can receive, as the decoder makes them: Enter,
\* ArrowUp, ArrowDown, EoT, Backspace, Char('a') and an unrecognized escape
\* sequence (ascii_code None).
KeyCodes ==
    { KeyEvent(k) : k \in { <<13>>, <<27, 91, 65>>, <<27, 91, 66>>, <<3>>,
                            <<127>>, <<97>>, <<27, 91, 67>> } }

RECURSIVE OptionListsUpTo(_)
OptionListsUpTo(n) ==
    IF n = 0 THEN { <<>> }
    ELSE LET shorter == OptionListsUpTo(n - 1)
         IN  shorter \cup { Append(o, l) : o \in shorter, l \in 1..MaxOptLines }

\* Sum of the line counts of the first n options: the buffer line (0-based)
\* at which option n + 1 starts.
RECURSIVE LinesBefore(_, _)
LinesBefore(opts, n) ==
    IF n = 0 THEN 0 ELSE LinesBefore(opts, n - 1) + opts[n]

TotalLinesSumOnly == LinesBefore(options, Len(options))

\* total_lines: the options' line counts summed, plus one.
total_lines == LinesBefore(options, Len(options)) + 1

\* box_rows = min(total_lines, terminal_height)
box_rows == Min(total_lines, row_height)

\* The pieces of buffer.split("\r\n"): every line of every option, named
\* <<option, line>> (both 1-based), then the empty piece after the last
\* "\r\n", named <<0, 0>>.
RECURSIVE OptionPieces(_, _)
OptionPieces(opts, n) ==
    IF n = 0 THEN <<>>
    ELSE OptionPieces(opts, n - 1) \o [k \in 1..opts[n] |-> <<n, k>>]

BufferPieces == Append(OptionPieces(options, Len(options)), <<0, 0>>)

ScrollDownOneLess(lines, scroll) == scroll + (lines - scroll - box_rows)

\* `scroll_pos += lines - scroll_pos - box_rows - 1`
ScrollDown(lines, scroll) == scroll + (lines - scroll - box_rows - 1)

\* The scroll adjustment of the render closure, made when the loop reaches the
\* highlighted option: lines is the piece count of the buffer up to and
\* including it, element_lines the piece count of its element.  An index that
\* names no option leaves scroll_pos as it is.
ScrollAfter(idx, scroll) ==
    IF idx + 1 > Len(options) THEN scroll
    ELSE LET lines == LinesBefore(options, idx + 1) + 1
             element_lines == options[idx + 1] + 1
         IN  IF SaturatingSub(lines, scroll) > box_rows
             THEN ScrollDown(lines, scroll)
             ELSE IF lines - element_lines < scroll
             THEN lines - element_lines
             ELSE scroll

\* `buffer.split("\r\n").skip(scroll_pos).take(box_rows)`
VisibleSlice(scroll) ==
    SubSeq(BufferPieces, scroll + 1, Min(scroll + box_rows, Len(BufferPieces)))

\* `MoveUp((box_rows - 1) as u16)` in a build that wraps.
MoveUpRows == WrappingSub(box_rows, 1) % 65536

ArrowDownNoCeiling(idx) == idx + 1

\* `if index < options.len() - 1 { index += 1 }` where the subtraction does
\* not overflow, or wraps.
ArrowDownIndex(idx) ==
    IF idx < WrappingSub(Len(options), 1) THEN idx + 1 ELSE idx

\* `index.saturating_sub(1)`
ArrowUpIndex(idx) == SaturatingSub(idx, 1)

EndsSessionNever(code) == FALSE

\* The arm `EoT => self.exit().await` of the select's and the prompt's match.
EndsSession(code) == code = <<"EoT">>

\* The match on the key code, for the codes that neither leave the loop nor
\* exit: the index after the event.
IndexAfter(code, idx) ==
    IF code = <<"ArrowUp">> THEN ArrowUpIndex(idx)
    ELSE IF code = <<"ArrowDown">> THEN ArrowDownIndex(idx)
    ELSE idx

InitSelect ==
    /\ options \in OptionListsUpTo(MaxOptions)
    /\ row_height \in 0..MaxRows
    /\ overflowChecks \in BOOLEAN
    /\ index = 0
    /\ scroll_pos = 0
    /\ selPc = "start"
    /\ shown = <<>>
    /\ moveUp = -1
    /\ input = <<>>
    /\ inputOpen = TRUE
    /\ selResult = -1

\* single_select up to its first recv: the sizes, then render(index, true).
SelectStart ==
    /\ selPc = "start"
    /\ scroll_pos' = ScrollAfter(index, scroll_pos)
    /\ shown' = VisibleSlice(scroll_pos')
    /\ selPc' = "waiting"
    /\ UNCHANGED <<options, row_height, overflowChecks, index, moveUp, input,
                   inputOpen, selResult>>
    /\ UNCHANGED notSelect

\* The transport adapter sends one decoded event into the channel of
\* capacity 1 (it waits while the channel is full).
FeedEvent(code) ==
    /\ inputOpen
    /\ Len(input) < 1
    /\ input' = Append(input, code)
    /\ UNCHANGED <<options, row_height, overflowChecks, index, scroll_pos,
                   selPc, shown, moveUp, inputOpen, selResult>>
    /\ UNCHANGED notSelect

\* The sender of the event channel is dropped (the reader task or the SSH
\* handler is gone).
CloseInput ==
    /\ inputOpen
    /\ inputOpen' = FALSE
    /\ UNCHANGED <<options, row_height, overflowChecks, index, scroll_pos,
                   selPc, shown, moveUp, input, selResult>>
    /\ UNCHANGED notSelect

\* One turn of the event loop: recv() returns Some(terminal_code), the match
\* on its code, then render(index, false).  Enter leaves the loop and the
\* select returns; EoT enters exit(), which never returns.  Where usize
\* arithmetic overflows (options.len() - 1 on an empty list, box_rows - 1 on
\* box_rows = 0) a build with overflow checks panics and one without wraps.
SelectRecv ==
    /\ selPc = "waiting"
    /\ input # <<>>
    /\ input' = Tail(input)
    /\ LET code == Head(input).ascii_code
           newIndex == IndexAfter(code, index)
       IN  IF code = <<"Enter">>
           THEN /\ selPc' = "returned"
                /\ selResult' = index
                /\ UNCHANGED <<index, scroll_pos, shown, moveUp>>
           ELSE IF EndsSession(code)
           THEN /\ selPc' = "exiting"
                /\ UNCHANGED <<index, scroll_pos, shown, moveUp, selResult>>
           ELSE IF code = <<"ArrowDown">> /\ Len(options) = 0 /\ overflowChecks
           THEN /\ selPc' = "panicked"
                /\ UNCHANGED <<index, scroll_pos, shown, moveUp, selResult>>
           ELSE /\ Len(options) = 0 => newIndex <= MaxRunaway
                /\ index' = newIndex
                /\ scroll_pos' = ScrollAfter(newIndex, scroll_pos)
                /\ IF box_rows = 0 /\ overflowChecks
                   THEN /\ selPc' = "panicked"
                        /\ UNCHANGED <<shown, moveUp>>
                   ELSE /\ selPc' = "waiting"
                        /\ moveUp' = MoveUpRows
                        /\ shown' = VisibleSlice(scroll_pos')
                /\ UNCHANGED selResult
    /\ UNCHANGED <<options, row_height, overflowChecks, inputOpen>>
    /\ UNCHANGED notSelect

\* recv() returns None: the channel is closed and empty.  The while-let loop
\* ends and the select returns the current index.
SelectInputClosed ==
    /\ selPc = "waiting"
    /\ input = <<>>
    /\ ~inputOpen
    /\ selPc' = "returned"
    /\ selResult' = index
    /\ UNCHANGED <<options, row_height, overflowChecks, index, scroll_pos,
                   shown, moveUp, input, inputOpen>>
    /\ UNCHANGED notSelect

\* ========================================================================
\* LINE PROMPT
\* ========================================================================

\* The bytes of "Jane Doe".
JaneDoe == <<74, 97, 110, 101, 32, 68, 111, 101>>

\* The events the decoder makes of the keystrokes of "Jane Doe", then Enter
\* (each keystroke arrives as a chunk of its own).
JaneKeys == [k \in 1..Len(JaneDoe) |-> KeyEvent(<<JaneDoe[k]>>)] \o <<KeyEvent(<<13>>)>>

\* The bytes of "café" in UTF-8: c, a, f, then the two bytes of 'é'.
Cafe == <<99, 97, 102, 195, 169>>

\* The events the decoder makes of the keystrokes of "café", then Enter.
CafeKeys == [k \in 1..Len(Cafe) |-> KeyEvent(<<Cafe[k]>>)] \o <<KeyEvent(<<13>>)>>

\* The events the prompt can receive, as the decoder makes them: Enter,
\* Backspace, ArrowUp, EoT, an unrecognized escape sequence, Char of a
\* printable ASCII byte ('a') and Char of a non-ASCII byte (200).
PromptKeys ==
    { KeyEvent(k) : k \in { <<13>>, <<127>>, <<27, 91, 65>>, <<3>>,
                            <<27, 91, 67>>, <<97>>, <<200>> } }

\* `str::from_utf8(&[c])` is Ok: a single byte is valid UTF-8 iff it is ASCII.
Utf8Single(c) == c <= 127

PopKeepsText(text) == text

\* String::pop on the text.
Pop(text) == IF text = <<>> THEN <<>> ELSE SubSeq(text, 1, Len(text) - 1)

\* `if let Ok(text) = str::from_utf8(&[c]) { input.push_str(text) }`
PushChar(text, c) == IF Utf8Single(c) THEN Append(text, c) ELSE text

\* The match on the key code, for the codes that neither leave the inner loop
\* nor exit: the text after the event.
TextAfter(code, text) ==
    IF code = <<"Backspace">> THEN Pop(text)
    ELSE IF code[1] = "Char" THEN PushChar(text, code[2])
    ELSE text

\* The render closure: after the marker "> " the text, or the dimmed default
\* text where the text is empty.
Render(text) == IF text # <<>> THEN <<"text", text>> ELSE <<"default">>

\* render("This field is required!"...)
RequiredWarning == <<"warning">>

LoopAgainFirstPassOnly(first, text) == first

\* `while first_pass || (required && input.is_empty())`
LoopAgain(first, text) == first \/ (required /\ text = <<>>)

\* From the head of the outer while loop to the next recv: the loop is entered
\* (the warning or the text is rendered, first_pass is cleared) and the prompt
\* waits in recv; or the loop is left and the prompt returns the text.
PromptLoop(first, text) ==
    IF LoopAgain(first, text)
    THEN /\ rendered' = IF ~first /\ text = <<>> THEN RequiredWarning
                        ELSE Render(text)
         /\ first_pass' = FALSE
         /\ promptPc' = "waiting"
         /\ UNCHANGED promptResult
    ELSE /\ promptPc' = "returned"
         /\ promptResult' = text
         /\ UNCHANGED <<rendered, first_pass>>

InitPrompt ==
    /\ required \in BOOLEAN
    /\ inputText = <<>>
    /\ first_pass = TRUE
    /\ promptPc = "start"
    /\ rendered = <<"none">>
    /\ taken = <<>>
    /\ promptResult = <<>>
    /\ typist \in {"free", "jane", "cafe"}

\* prompt up to its first recv.
PromptStart ==
    /\ promptPc = "start"
    /\ PromptLoop(first_pass, inputText)
    /\ UNCHANGED <<required, inputText, taken, typist, input, inputOpen>>
    /\ UNCHANGED notPrompt

\* One turn of the inner loop: recv() returns Some(terminal_code), the match
\* on its code, then render(input).  Enter breaks to the head of the outer
\* loop; EoT enters exit(), which never returns.
PromptRecv ==
    /\ promptPc = "waiting"
    /\ input # <<>>
    /\ input' = Tail(input)
    /\ taken' = Append(taken, Head(input).ascii_code)
    /\ LET code == Head(input).ascii_code
       IN  IF code = <<"Enter">>
           THEN /\ PromptLoop(first_pass, inputText)
                /\ UNCHANGED inputText
           ELSE IF EndsSession(code)
           THEN /\ promptPc' = "exiting"
                /\ UNCHANGED <<inputText, first_pass, rendered, promptResult>>
           ELSE /\ inputText' = TextAfter(code, inputText)
                /\ rendered' = Render(inputText')
                /\ UNCHANGED <<first_pass, promptPc, promptResult>>
    /\ UNCHANGED <<required, typist, inputOpen>>
    /\ UNCHANGED notPrompt

\* recv() returns None: the channel is closed and empty.  The inner loop ends
\* and control is at the head of the outer loop again.
PromptInputClosed ==
    /\ promptPc = "waiting"
    /\ input = <<>>
    /\ ~inputOpen
    /\ PromptLoop(first_pass, inputText)
    /\ UNCHANGED <<required, inputText, taken, typist, input, inputOpen>>
    /\ UNCHANGED notPrompt

\* The number of events sent to the prompt so far.
KeysSent == Len(taken) + Len(input)

\* ========================================================================
\* SESSION RELAY
\* ========================================================================

\* No event held.
NoEvent == TerminalCode(<<"None">>, <<>>)

\* The events typed into a relay, as the decoder makes them: Char('a'), EoT
\* (Ctrl-C) and an unrecognized escape sequence.
RelayKeys == { KeyEvent(k) : k \in { <<97>>, <<3>>, <<27, 91, 67>> } }

RelayPayloadKeysOnly(ev) ==
    IF ev.ascii_code = <<"None">> THEN <<>> ELSE ev.raw_bytes

\* `channel.data(r.raw_bytes.as_slice())`: what is sent for an event.
RelayPayload(ev) == ev.raw_bytes

LockNeverHeld(pc) == "free"

\* `let params = self.params.lock().await` at the head of call: the guard is
\* a local of call, so the mutex is held from there until call returns or its
\* future is dropped, that is, exactly while the relay is in its loop.
LockAfter(pc) == IF pc \in {"loop", "sending"} THEN "relay" ELSE "free"

InitRelay ==
    /\ relayPc = "idle"
    /\ relayHeld = NoEvent
    /\ forwarded = <<>>
    /\ relayTaken = <<>>
    /\ relayResult = "none"
    /\ remoteOpen = FALSE
    /\ remoteSent = <<>>
    /\ paramsLock = "free"

\* docker_session up to the relay's loop: connect (unwrapped: a failure
\* panics), then call: channel_open_session, request_pty, exec (a failure
\* makes call return Err, which docker_session ignores).
RelayOpen ==
    /\ relayPc = "idle"
    /\ \/ /\ relayPc' = "loop"
          /\ remoteOpen' = TRUE
          /\ UNCHANGED <<relayResult, producer>>
       \/ /\ relayPc' = "done"
          /\ relayResult' = "error"
          /\ UNCHANGED <<remoteOpen, producer>>
       \/ /\ relayPc' = "done"
          /\ relayResult' = "panic"
          /\ producer' = "panicked"
          /\ UNCHANGED remoteOpen
    /\ UNCHANGED <<relayHeld, forwarded, relayTaken, remoteSent, input,
                   inputOpen, queue, submitted>>
    /\ paramsLock' = LockAfter(relayPc')
    /\ UNCHANGED notRelay

\* select!, the branch `Some(r) = self.input.recv()`: the relay takes the
\* next event, whatever it is, and starts sending its raw bytes.
RelayTake ==
    /\ relayPc = "loop"
    /\ input # <<>>
    /\ relayHeld' = Head(input)
    /\ input' = Tail(input)
    /\ relayTaken' = Append(relayTaken, Head(input))
    /\ relayPc' = "sending"
    /\ UNCHANGED <<forwarded, relayResult, remoteOpen, remoteSent, inputOpen,
                   queue, submitted, producer>>
    /\ paramsLock' = LockAfter(relayPc')
    /\ UNCHANGED notRelay

\* `channel.data(..).await?` completes: the bytes are in the remote channel
\* and the loop goes on; or it fails and call returns Err.
RelaySend ==
    /\ relayPc = "sending"
    /\ \/ /\ forwarded' = Append(forwarded, RelayPayload(relayHeld))
          /\ relayPc' = "loop"
          /\ UNCHANGED <<relayResult, remoteOpen>>
       \/ /\ relayPc' = "done"
          /\ relayResult' = "error"
          /\ remoteOpen' = FALSE
          /\ UNCHANGED forwarded
    /\ relayHeld' = NoEvent
    /\ UNCHANGED <<relayTaken, remoteSent, input, inputOpen,
                   queue, submitted, producer>>
    /\ paramsLock' = LockAfter(relayPc')
    /\ UNCHANGED notRelay

RelayWritesUnflushed(d) == <<Data(d)>>

\* `self.output.write_all(data)?; self.output.flush()?;`: AsyncWriter::write
\* takes the whole buffer as one Data command, so write_all calls it once.
RelayWrites(d) == <<Data(d), Flush>>

\* select!, the branch `Some(msg) = channel.wait()` with ChannelMsg::Data:
\* output.write_all(data), output.flush() on the AsyncWriter.  write() on a
\* writer whose worker is gone panics.
RelayRemoteData(d) ==
    /\ relayPc = "loop"
    /\ remoteOpen
    /\ Len(remoteSent) < MaxRemote
    /\ remoteSent' = Append(remoteSent, d)
    /\ IF RecvAlive
       THEN /\ queue' = queue \o RelayWrites(d)
            /\ submitted' = submitted \o RelayWrites(d)
            /\ UNCHANGED <<relayPc, relayResult, remoteOpen, producer>>
       ELSE /\ relayPc' = "done"
            /\ relayResult' = "panic"
            /\ remoteOpen' = FALSE
            /\ producer' = "panicked"
            /\ UNCHANGED <<queue, submitted>>
    /\ UNCHANGED <<relayHeld, forwarded, relayTaken, input, inputOpen>>
    /\ paramsLock' = LockAfter(relayPc')
    /\ UNCHANGED notRelay

\* select!, the branch `Some(msg) = channel.wait()` with a message that is
\* neither Data nor ExitStatus: `_ => {}`.
RelayRemoteOther ==
    /\ relayPc = "loop"
    /\ remoteOpen
    /\ UNCHANGED vars

\* ChannelMsg::ExitStatus: the code is kept, eof is sent, the loop is left and
\* call returns (Err if eof failed).
RelayExitStatus ==
    /\ relayPc = "loop"
    /\ remoteOpen
    /\ relayPc' = "done"
    /\ relayResult' \in {"exit", "error"}
    /\ remoteOpen' = FALSE
    /\ UNCHANGED <<relayHeld, forwarded, relayTaken, remoteSent,
                   input, inputOpen, queue, submitted, producer>>
    /\ paramsLock' = LockAfter(relayPc')
    /\ UNCHANGED notRelay

\* The remote channel is closed: channel.wait() returns None from now on and
\* select! disables that branch.
RelayRemoteClosed ==
    /\ relayPc \in {"loop", "sending"}
    /\ remoteOpen
    /\ remoteOpen' = FALSE
    /\ UNCHANGED <<relayPc, relayHeld, forwarded, relayTaken, relayResult,
                   remoteSent, input, inputOpen, queue, submitted, producer>>
    /\ paramsLock' = LockAfter(relayPc')
    /\ UNCHANGED notRelay

\* select! with both branches disabled (the event channel closed and empty,
\* the remote channel closed) and no else branch: it panics.
RelayAllDisabled ==
    /\ relayPc = "loop"
    /\ ~remoteOpen
    /\ input = <<>>
    /\ ~inputOpen
    /\ relayPc' = "done"
    /\ relayResult' = "panic"
    /\ producer' = "panicked"
    /\ UNCHANGED <<relayHeld, forwarded, relayTaken, remoteOpen, remoteSent,
                   input, inputOpen, queue, submitted>>
    /\ paramsLock' = LockAfter(relayPc')
    /\ UNCHANGED notRelay

RelayTimeoutInLoopOnly ==
    /\ relayPc = "loop"
    /\ relayPc' = "done"
    /\ relayResult' = "timeout"
    /\ relayHeld' = NoEvent
    /\ remoteOpen' = FALSE
    /\ UNCHANGED <<forwarded, relayTaken, remoteSent, input,
                   inputOpen, queue, submitted, producer>>
    /\ paramsLock' = LockAfter(relayPc')
    /\ UNCHANGED notRelay

\* docker_session, `timeout(Duration::from_secs(60 * 30), session.call(..))`:
\* the time is up and the future of call is dropped where it waits, an event
\* it holds included; `let _ =` drops the Elapsed error, docker_session
\* returns and `session` goes out of scope (the connection is dropped).
RelayTimeout ==
    /\ relayPc \in {"loop", "sending"}
    /\ relayPc' = "done"
    /\ relayResult' = "timeout"
    /\ relayHeld' = NoEvent
    /\ remoteOpen' = FALSE
    /\ UNCHANGED <<forwarded, relayTaken, remoteSent, input,
                   inputOpen, queue, submitted, producer>>
    /\ paramsLock' = LockAfter(relayPc')
    /\ UNCHANGED notRelay

\* ========================================================================
\* EVENT FEED
\* ========================================================================
\* The task that decodes the input chunks and sends the events into the
\* channel of capacity 1 (the reader task of the local terminal, the data
\* handler of the SSH server), and whoever of the App takes them out.

\* The chunks the transport hands over: Enter; 'a' and Enter typed ahead;
\* ArrowDown; ArrowDown and Enter in one chunk; Ctrl-A (dropped: no event).
FeedChunks ==
    { <<13>>, <<97, 13>>, <<27, 91, 66>>, <<27, 91, 66, 13>>, <<1>> }

\* An entry of the history of events taken from the channel.
Taken(ev, by) == [event |-> ev, by |-> by]

\* The events of the history, in the order they were taken.
EventsOf(log) == [k \in 1..Len(log) |-> log[k].event]

InitFeed ==
    /\ feedPending = <<>>
    /\ arrived = <<>>
    /\ consumed = <<>>
    /\ reader = "controller"

\* `stdin().read_buf(&mut buf)` / Handler::data: the next chunk is decoded;
\* the loop over its events begins (the previous chunk's loop has ended).
FeedChunk(chunk) ==
    /\ inputOpen
    /\ feedPending = <<>>
    /\ Len(arrived) < MaxArrived
    /\ feedPending' = channel_data_to_terminal_codes(chunk)
    /\ arrived' = arrived \o channel_data_to_terminal_codes(chunk)
    /\ UNCHANGED <<consumed, reader, input, inputOpen>>
    /\ UNCHANGED notFeed

FeedSendNewestFirst ==
    /\ inputOpen
    /\ feedPending # <<>>
    /\ reader # "gone"
    /\ Len(input) < 1
    /\ input' = Append(input, feedPending[Len(feedPending)])
    /\ feedPending' = SubSeq(feedPending, 1, Len(feedPending) - 1)
    /\ UNCHANGED <<arrived, consumed, reader, inputOpen>>
    /\ UNCHANGED notFeed

\* `for code in .. { tx.send(code).await }`, one turn: the send completes
\* once the channel has room.
FeedSend ==
    /\ inputOpen
    /\ feedPending # <<>>
    /\ reader # "gone"
    /\ Len(input) < 1
    /\ input' = Append(input, Head(feedPending))
    /\ feedPending' = Tail(feedPending)
    /\ UNCHANGED <<arrived, consumed, reader, inputOpen>>
    /\ UNCHANGED notFeed

\* The send fails because the receiver was dropped: `.unwrap()` /
\* `.expect("sending to work")` panics, the feeder's loop and sender are gone.
FeedSendFails ==
    /\ inputOpen
    /\ feedPending # <<>>
    /\ reader = "gone"
    /\ feedPending' = <<>>
    /\ inputOpen' = FALSE
    /\ UNCHANGED <<arrived, consumed, reader, input>>
    /\ UNCHANGED notFeed

\* `self.input.recv().await` returns Some(event) where the App reads: in a
\* select or prompt of the controller, or in the relay's select!.
ReaderRecv ==
    /\ reader \in {"controller", "relay"}
    /\ input # <<>>
    /\ consumed' = Append(consumed, Taken(Head(input), reader))
    /\ input' = Tail(input)
    /\ UNCHANGED <<feedPending, arrived, reader, inputOpen>>
    /\ UNCHANGED notFeed

\* docker_session lends `&mut self.input` to the relay: the same receiver,
\* with whatever the channel holds.
ReaderHandOver ==
    /\ reader = "controller"
    /\ reader' = "relay"
    /\ UNCHANGED <<feedPending, arrived, consumed, input, inputOpen>>
    /\ UNCHANGED notFeed

\* The App enters exit() (EoT, or menu returned, also after a relay): it
\* keeps the receiver and never reads it again.
ReaderExit ==
    /\ reader \in {"controller", "relay"}
    /\ reader' = "exited"
    /\ UNCHANGED <<feedPending, arrived, consumed, input, inputOpen>>
    /\ UNCHANGED notFeed

\* The App task panics or returns an error: the App and its receiver are
\* dropped, with the event the channel holds.
ReaderGone ==
    /\ reader \in {"controller", "relay"}
    /\ reader' = "gone"
    /\ input' = <<>>
    /\ UNCHANGED <<feedPending, arrived, consumed, inputOpen>>
    /\ UNCHANGED notFeed

\* ========================================================================
\* FIXED-WIDTH WRAP
\* ========================================================================

Space == 32
CrLf == <<13, 10>>

\* The index of the first occurrence of sep in s (0: none).
FirstAt(s, sep) ==
    LET hits == { i \in 1..(Len(s) - Len(sep) + 1) :
                      SubSeq(s, i, i + Len(sep) - 1) = sep }
    IN  IF hits = {} THEN 0
        ELSE CHOOSE i \in hits : \A j \in hits : i <= j

\* str::split(sep): the pieces between the occurrences of sep, empty pieces
\* included; a string without sep is one piece.
RECURSIVE Split(_, _)
Split(s, sep) ==
    LET i == FirstAt(s, sep)
    IN  IF i = 0 THEN <<s>>
        ELSE <<SubSeq(s, 1, i - 1)>> \o
             Split(SubSeq(s, i + Len(sep), Len(s)), sep)

\* The loop `for word in line.split(' ')`: a new line is begun when the
\* current line's length plus the word's exceeds width; the word and a space
\* are pushed onto the current line.
RECURSIVE WrapWords(_, _, _)
WrapWords(words, width, result) ==
    IF words = <<>> THEN result
    ELSE LET word == Head(words)
             begun == IF Len(result[Len(result)]) + Len(word) > width
                      THEN Append(result, <<>>)
                      ELSE result
         IN  WrapWords(Tail(words), width,
                 [begun EXCEPT ![Len(begun)] = @ \o word \o <<Space>>])

\* `.map(|x| x.to_owned() + "\r\n").collect::<String>()`
RECURSIVE JoinCrLf(_)
JoinCrLf(ls) ==
    IF ls = <<>> THEN <<>> ELSE Head(ls) \o CrLf \o JoinCrLf(Tail(ls))

\* The closure of fixed_width on one line of the input.
WrapLine(line, width) ==
    JoinCrLf(WrapWords(Split(line, <<Space>>), width, << <<>> >>))

RECURSIVE WrapLines(_, _)
WrapLines(ls, width) ==
    IF ls = <<>> THEN <<>>
    ELSE WrapLine(Head(ls), width) \o WrapLines(Tail(ls), width)

\* fixed_width(input, width)
fixed_width(text, width) == WrapLines(Split(text, CrLf), width)

\* The text of the example: "aa bb cc".
ExampleText == <<97, 97, 32, 98, 98, 32, 99, 99>>

\* What the caller appends to the text it wraps: 'a', ' ' or "\r\n".
WrapPieces == { <<97>>, <<Space>>, CrLf }

InitWrap ==
    /\ wrapInput = <<>>
    /\ wrapWidth = 0
    /\ wrapOutput = <<>>
    /\ wrapPc = "input"

\* The caller's text grows by a piece.
WrapAppend(piece) ==
    /\ wrapPc = "input"
    /\ Len(wrapInput) + Len(piece) <= MaxText
    /\ wrapInput' = wrapInput \o piece
    /\ UNCHANGED <<wrapWidth, wrapOutput, wrapPc>>
    /\ UNCHANGED notWrap

\* The caller's text is the example.
WrapExample ==
    /\ wrapPc = "input"
    /\ wrapInput = <<>>
    /\ wrapInput' = ExampleText
    /\ UNCHANGED <<wrapWidth, wrapOutput, wrapPc>>
    /\ UNCHANGED notWrap

\* The width (min(col_width, 100) at the callers) is one more.
WrapWiden ==
    /\ wrapPc = "input"
    /\ wrapWidth < MaxWidth
    /\ wrapWidth' = wrapWidth + 1
    /\ UNCHANGED <<wrapInput, wrapOutput, wrapPc>>
    /\ UNCHANGED notWrap

\* The call.
WrapCall ==
    /\ wrapPc = "input"
    /\ wrapOutput' = fixed_width(wrapInput, wrapWidth)
    /\ wrapPc' = "done"
    /\ UNCHANGED <<wrapInput, wrapWidth>>
    /\ UNCHANGED notWrap

\* ========================================================================
\* REGISTRY SERVER
\* ========================================================================
\* The SSH server that keeps its sessions in `clients`, a map behind one
\* Mutex shared by the handlers of all connections.  Each connection's
\* handler runs its callbacks one at a time; the handlers of different
\* connections run concurrently.

Sessions == {"A", "B"}

\* The bytes a session's user types: 'a' for A, 'b' for B.
ByteOf(s) == IF s = "A" THEN 97 ELSE 98

\* The data messages of a session: one keystroke, or two in one message.
DataOf(s) == { <<ByteOf(s)>>, <<ByteOf(s), ByteOf(s)>> }

\* Handler::data on printable bytes: `sender.send(Char(data[i]))` for each.
CharsOf(bytes) == [k \in 1..Len(bytes) |-> <<"Char", bytes[k]>>]

\* `clients.get(&self.id)`: the sessions whose sender is stored under the id.
ClientAt(i) == { s \in Sessions : <<i, s>> \in clients }

\* The handler is in `self.clients.lock().await`.
WaitsForLock(s) == handlerPc[s] \in {"open_wait", "data_wait", "close_wait"}

InitRegistry ==
    /\ nextId = 0
    /\ id = [s \in Sessions |-> -1]
    /\ clients = {}
    /\ lock = "free"
    /\ handlerPc = [s \in Sessions |-> "none"]
    /\ handlerPending = [s \in Sessions |-> <<>>]
    /\ clientChan = [s \in Sessions |-> <<>>]
    /\ channels = [s \in Sessions |-> 0]

\* new_client: the handler of a new connection is a clone of the server (it
\* shares `clients`) with the current id; the server's id goes up by one.
NewClient(s) ==
    /\ handlerPc[s] = "none"
    /\ id' = [id EXCEPT ![s] = nextId]
    /\ nextId' = nextId + 1
    /\ handlerPc' = [handlerPc EXCEPT ![s] = "connected"]
    /\ UNCHANGED <<clients, lock, handlerPending, clientChan, channels>>
    /\ UNCHANGED notRegistry

\* The connection's next event reaches its handler, which asks for the lock:
\* channel_open_session, data (with the message's bytes) or channel_close.
OpenRequest(s) ==
    /\ \/ handlerPc[s] = "connected"
       \/ handlerPc[s] = "ready" /\ channels[s] < MaxChannels
    /\ handlerPc' = [handlerPc EXCEPT ![s] = "open_wait"]
    /\ UNCHANGED <<nextId, id, clients, lock, handlerPending, clientChan, channels>>
    /\ UNCHANGED notRegistry

DataRequest(s, bytes) ==
    /\ handlerPc[s] = "ready"
    /\ handlerPc' = [handlerPc EXCEPT ![s] = "data_wait"]
    /\ handlerPending' = [handlerPending EXCEPT ![s] = CharsOf(bytes)]
    /\ UNCHANGED <<nextId, id, clients, lock, clientChan, channels>>
    /\ UNCHANGED notRegistry

CloseRequest(s) ==
    /\ handlerPc[s] = "ready"
    /\ handlerPc' = [handlerPc EXCEPT ![s] = "close_wait"]
    /\ UNCHANGED <<nextId, id, clients, lock, handlerPending, clientChan, channels>>
    /\ UNCHANGED notRegistry

\* channel_open_session with the lock: the channel of capacity 1 is made, the
\* session's task spawned and the sender stored under the handler's id; the
\* guard is dropped at the return (nothing is awaited in between).
ChannelOpen(s) ==
    /\ handlerPc[s] = "open_wait"
    /\ lock = "free"
    /\ clients' = { c \in clients : c[1] # id[s] } \cup { <<id[s], s>> }
    /\ clientChan' = [clientChan EXCEPT ![s] = <<>>]
    /\ channels' = [channels EXCEPT ![s] = @ + 1]
    /\ handlerPc' = [handlerPc EXCEPT ![s] = "ready"]
    /\ UNCHANGED <<nextId, id, lock, handlerPending>>
    /\ UNCHANGED notRegistry

\* data, `let clients = self.clients.lock().await`: the guard lives until
\* the handler returns.  `clients.get(&self.id).expect("client to exist")`
\* panics where the map has no entry under the handler's id (the guard is
\* dropped by the unwinding).
DataLock(s) ==
    /\ handlerPc[s] = "data_wait"
    /\ lock = "free"
    /\ IF ClientAt(id[s]) # {}
       THEN /\ lock' = s
            /\ handlerPc' = [handlerPc EXCEPT ![s] = "data_send"]
            /\ UNCHANGED handlerPending
       ELSE /\ handlerPc' = [handlerPc EXCEPT ![s] = "panicked"]
            /\ handlerPending' = [handlerPending EXCEPT ![s] = <<>>]
            /\ UNCHANGED lock
    /\ UNCHANGED <<nextId, id, clients, clientChan, channels>>
    /\ UNCHANGED notRegistry

\* data, `sender.send(..).await` of the next event into the channel of the
\* client found under the handler's id: it completes once there is room.
DataSend(s) ==
    /\ handlerPc[s] = "data_send"
    /\ handlerPending[s] # <<>>
    /\ \E target \in ClientAt(id[s]) :
          /\ Len(clientChan[target]) < 1
          /\ clientChan' = [clientChan EXCEPT
                               ![target] = Append(@, Head(handlerPending[s]))]
    /\ handlerPending' = [handlerPending EXCEPT ![s] = Tail(@)]
    /\ UNCHANGED <<nextId, id, clients, lock, handlerPc, channels>>
    /\ UNCHANGED notRegistry

\* data returns Ok(()): the guard is dropped.
DataReturn(s) ==
    /\ handlerPc[s] = "data_send"
    /\ handlerPending[s] = <<>>
    /\ lock' = "free"
    /\ handlerPc' = [handlerPc EXCEPT ![s] = "ready"]
    /\ UNCHANGED <<nextId, id, clients, handlerPending, clientChan, channels>>
    /\ UNCHANGED notRegistry

\* channel_close with the lock: the entry under the handler's id is removed
\* (the session's task is aborted by SSHClient's Drop and its channel dropped
\* with it); `clients.remove(&self.id).expect("key to exist")` panics where
\* there is none.  The connection goes on while it has a channel open.
ChannelClose(s) ==
    /\ handlerPc[s] = "close_wait"
    /\ lock = "free"
    /\ channels' = [channels EXCEPT ![s] = @ - 1]
    /\ IF ClientAt(id[s]) # {}
       THEN /\ clients' = { c \in clients : c[1] # id[s] }
            /\ clientChan' = [clientChan EXCEPT ![s] = <<>>]
            /\ handlerPc' = [handlerPc EXCEPT
                                ![s] = IF channels[s] > 1 THEN "ready"
                                       ELSE "closed"]
       ELSE /\ handlerPc' = [handlerPc EXCEPT ![s] = "panicked"]
            /\ UNCHANGED <<clients, clientChan>>
    /\ UNCHANGED <<nextId, id, lock, handlerPending>>
    /\ UNCHANGED notRegistry

\* The session's controller takes an event from its channel (when it reads:
\* it does not while it prints, or once its form has ended).
ClientRecv(s) ==
    /\ clientChan[s] # <<>>
    /\ clientChan' = [clientChan EXCEPT ![s] = Tail(@)]
    /\ UNCHANGED <<nextId, id, clients, lock, handlerPc, handlerPending,
                   channels>>
    /\ UNCHANGED notRegistry

\* The relay is inside call's loop: at select! or in `channel.data(..).await`.
RelayRunning == relayPc \in {"loop", "sending"}

\* ========================================================================
\* SESSION CONTROLLER
\* ========================================================================

\* The texts the controller prints, each standing for its bytes: the banner
\* of the menu ('W'), the Info text ('H'), a question of the form (' '),
\* the confirmation ("Wa"), and "\r\n".
BannerText == <<87>>
InfoText == <<72>>
FormText == <<32>>
ThanksText == <<87, 97>>
NewLine == <<13, 10>>

\* print / println of one text: write!(self.out, ..) and flush.
PrintCmds(text) == <<Data(text), Flush>>

\* `let options = &[Info, Gallery, Submit]` by their line counts: Info is
\* "What is this?\r\n  (+ resources & criteria)".
MenuOptions == <<2, 1, 1>>

\* `let options = &["Submission", "Update"]`
FormTypeOptions == <<1, 1>>

\* What get() can return, as the options the gallery makes of it (a name
\* line and at least one description line each): no record, one, two.
GalleryLists == { <<>>, <<2>>, <<2, 2>> }

\* The `required` argument of the form's prompts, in order: name, Slack
\* handle, email, address line 1, address line 2 (optional), city, state,
\* ZIP, country, package link, description, hours.
FormRequired ==
    <<TRUE, TRUE, TRUE, TRUE, FALSE, TRUE, TRUE, TRUE, TRUE, TRUE, TRUE, TRUE>>

\* What submission_form prints after the k-th prompt returned and before the
\* next one (or before create): nothing between the address prompts.
FormPrintsAfter(k) ==
    IF k \in 4..8 THEN <<>>
    ELSE IF k = Len(FormRequired) THEN PrintCmds(NewLine)
    ELSE PrintCmds(NewLine) \o PrintCmds(FormText)

\* The events a session's typist sends: Enter, ArrowDown, EoT and Char('a').
SessionKeys == { KeyEvent(k) : k \in { <<13>>, <<27, 91, 66>>, <<3>>, <<97>> } }

\* The keystrokes that fill in the form: ArrowDown, ArrowDown, Enter at the
\* menu (Submit), Enter at the type select, then for each prompt 'a' and
\* Enter, or Enter alone where the field is optional.
RECURSIVE FormKeystrokes(_)
FormKeystrokes(k) ==
    IF k = 0 THEN <<>>
    ELSE FormKeystrokes(k - 1) \o
         (IF FormRequired[k] THEN << <<97>>, <<13>> >> ELSE << <<13>> >>)

SubmitKeystrokes ==
    << <<27, 91, 66>>, <<27, 91, 66>>, <<13>>, <<13>> >>
        \o FormKeystrokes(Len(FormRequired))

SubmitScript == [k \in 1..Len(SubmitKeystrokes) |-> KeyEvent(SubmitKeystrokes[k])]

\* The keystrokes of a visit to a project: ArrowDown, Enter at the menu
\* (Gallery), Enter at the gallery (its first project), then 'a' and Ctrl-C
\* typed into the project's container.
VisitKeystrokes == << <<27, 91, 66>>, <<13>>, <<13>>, <<97>>, <<3>> >>

VisitScript == [k \in 1..Len(VisitKeystrokes) |-> KeyEvent(VisitKeystrokes[k])]

\* single_select entered with the given options: scroll_pos = 0, index = 0.
BeginSelect(opts) ==
    /\ options' = opts
    /\ index' = 0
    /\ scroll_pos' = 0
    /\ selPc' = "start"
    /\ shown' = <<>>
    /\ moveUp' = -1
    /\ selResult' = -1
    /\ UNCHANGED <<row_height, overflowChecks>>

\* prompt entered with the given `required`: input = "", first_pass = true.
BeginPrompt(req) ==
    /\ required' = req
    /\ inputText' = <<>>
    /\ first_pass' = TRUE
    /\ promptPc' = "start"
    /\ rendered' = <<"none">>
    /\ taken' = <<>>
    /\ promptResult' = <<>>
    /\ UNCHANGED typist

\* The controller submits commands to the writer.
AppOut(cmds) ==
    /\ queue' = queue \o cmds
    /\ submitted' = submitted \o cmds
    /\ UNCHANGED producer

\* The App task panics (an unwrap or expect on an Err, or write() on a
\* writer whose worker is gone).
AppPanic ==
    /\ appPc' = "panicked"
    /\ producer' = "panicked"
    /\ UNCHANGED <<queue, submitted>>

\* The writer's variables the controller never touches itself.
writerRest == <<outKind, sender, worker, cur, sink, delivered, written,
                applied, lastSubmit, attempts, sawWorker, pendingAtWait>>

InitApp ==
    /\ appPc = "start"
    /\ formIdx = 0
    /\ createResult = "none"
    /\ sent = 0

\* run -> menu up to the first single_select: the title, the banner.
AppStart ==
    /\ appPc = "start"
    /\ IF RecvAlive
       THEN /\ AppOut(PrintCmds(BannerText))
            /\ BeginSelect(MenuOptions)
            /\ appPc' = "menu"
       ELSE /\ AppPanic
            /\ UNCHANGED selState
    /\ UNCHANGED <<input, inputOpen, formIdx, createResult, sent>>
    /\ UNCHANGED <<writerRest, decVars, feedVars, regVars, wrapVars, promptVars, exitVars, relayVars>>

MenuTargetInfoLeaves(result) ==
    CASE result = 0 -> "exit"
      [] result = 1 -> "gallery_get"
      [] OTHER -> "form_type"

\* `match options[self.single_select(options).await?]` with options =
\* [Info, Gallery, Submit]: where the controller is after the arm.
MenuTarget(result) ==
    CASE result = 0 -> "menu"
      [] result = 1 -> "gallery_get"
      [] OTHER -> "form_type"

\* menu, one turn of its loop after the select returned: Info prints the
\* text and a newline and the loop presents the select again; Gallery and
\* Submit return what gallery() and submission_form() return (the form first
\* prints its question and opens the type select).
MenuChoice ==
    /\ appPc = "menu"
    /\ selPc = "returned"
    /\ LET target == MenuTarget(selResult)
       IN  IF target = "menu"
           THEN IF RecvAlive
                THEN /\ AppOut(PrintCmds(InfoText) \o PrintCmds(NewLine))
                     /\ BeginSelect(MenuOptions)
                     /\ appPc' = "menu"
                ELSE /\ AppPanic
                     /\ UNCHANGED selState
           ELSE IF target = "form_type"
           THEN IF RecvAlive
                THEN /\ AppOut(PrintCmds(FormText))
                     /\ BeginSelect(FormTypeOptions)
                     /\ appPc' = "form_type"
                ELSE /\ AppPanic
                     /\ UNCHANGED selState
           ELSE /\ appPc' = target
                /\ UNCHANGED <<queue, submitted, producer, selState>>
    /\ UNCHANGED <<input, inputOpen, formIdx, createResult, sent>>
    /\ UNCHANGED <<writerRest, decVars, feedVars, regVars, wrapVars, promptVars, exitVars, relayVars>>

\* gallery up to its single_select: get() (its Err is unwrapped by expect),
\* then the select over the responses.
GalleryGet ==
    /\ appPc = "gallery_get"
    /\ \/ /\ \E list \in GalleryLists : BeginSelect(list)
          /\ appPc' = "gallery"
          /\ UNCHANGED <<queue, submitted, producer>>
       \/ /\ AppPanic
          /\ UNCHANGED selState
    /\ UNCHANGED <<input, inputOpen, formIdx, createResult, sent>>
    /\ UNCHANGED <<writerRest, decVars, feedVars, regVars, wrapVars, promptVars, exitVars, relayVars>>

\* gallery after its select returned: `responses.get(result).expect(..)`,
\* then docker_session.
GalleryChoice ==
    /\ appPc = "gallery"
    /\ selPc = "returned"
    /\ IF selResult < Len(options)
       THEN /\ appPc' = "relay"
            /\ relayPc' = "idle"
            /\ UNCHANGED <<queue, submitted, producer>>
       ELSE /\ AppPanic
            /\ UNCHANGED relayPc
    /\ UNCHANGED <<relayHeld, forwarded, relayTaken, relayResult, remoteOpen,
                   remoteSent, paramsLock>>
    /\ UNCHANGED <<input, inputOpen, formIdx, createResult, sent>>
    /\ UNCHANGED <<writerRest, decVars, feedVars, regVars, wrapVars, selState, promptVars, exitVars>>

\* docker_session returned (the result of the timeout is dropped): gallery
\* returns Ok(()), menu returns it, and run goes on to exit().
AfterRelay == "exit"

RelayReturn ==
    /\ appPc = "relay"
    /\ relayPc = "done"
    /\ appPc' = IF relayResult = "panic" THEN "panicked" ELSE AfterRelay
    /\ UNCHANGED <<formIdx, createResult, sent>>
    /\ UNCHANGED <<pipeVars, decVars, feedVars, regVars, wrapVars, selVars, promptVars, exitVars, relayVars>>

\* submission_form after the type select returned: the first question and
\* the first prompt.
FormType ==
    /\ appPc = "form_type"
    /\ selPc = "returned"
    /\ IF RecvAlive
       THEN /\ AppOut(PrintCmds(FormText))
            /\ BeginPrompt(FormRequired[1])
            /\ formIdx' = 1
            /\ appPc' = "form"
       ELSE /\ AppPanic
            /\ UNCHANGED <<promptVars, formIdx>>
    /\ UNCHANGED <<input, inputOpen, createResult, sent>>
    /\ UNCHANGED <<writerRest, decVars, feedVars, regVars, wrapVars, selState, exitVars, relayVars>>

\* submission_form after a prompt returned: the field is stored, what comes
\* between the prompts is printed, and the next prompt is entered; after the
\* last one the record goes to create.
FormNext ==
    /\ appPc = "form"
    /\ promptPc = "returned"
    /\ LET cmds == FormPrintsAfter(formIdx)
       IN  IF cmds # <<>> /\ ~RecvAlive
           THEN /\ AppPanic
                /\ UNCHANGED <<promptVars, formIdx>>
           ELSE /\ AppOut(cmds)
                /\ IF formIdx < Len(FormRequired)
                   THEN /\ BeginPrompt(FormRequired[formIdx + 1])
                        /\ formIdx' = formIdx + 1
                        /\ appPc' = "form"
                   ELSE /\ appPc' = "create"
                        /\ UNCHANGED <<promptVars, formIdx>>
    /\ UNCHANGED <<input, inputOpen, createResult, sent>>
    /\ UNCHANGED <<writerRest, decVars, feedVars, regVars, wrapVars, selState, exitVars, relayVars>>

AfterCreateIgnoresError(result) == "exit"

\* `airtable.create(data).await.expect(..)`: where the controller is after
\* the call returned Ok or Err.
AfterCreate(result) == IF result = "ok" THEN "exit" ELSE "panicked"

\* submission_form from create on: the call, then the confirmation and a
\* newline, and submission_form returns Ok(()) to menu and run, which goes
\* on to exit().
Create ==
    /\ appPc = "create"
    /\ \E result \in {"ok", "err"} :
          /\ createResult' = result
          /\ IF AfterCreate(result) = "panicked" \/ ~RecvAlive
             THEN AppPanic
             ELSE /\ AppOut(PrintCmds(ThanksText) \o PrintCmds(NewLine))
                  /\ appPc' = AfterCreate(result)
    /\ UNCHANGED <<formIdx, sent>>
    /\ UNCHANGED <<writerRest, decVars, feedVars, regVars, wrapVars, selVars, promptVars, exitVars, relayVars>>

\* exit() entered, from run after menu returned, or from the EoT arm of a
\* select or a prompt: `self.out.wait().await` up to the await.
AppExit ==
    /\ \/ appPc = "exit"
       \/ selPc = "exiting"
       \/ promptPc = "exiting"
    /\ WriterWait

\* A panic inside single_select (usize overflow) unwinds the App task.
AppSelectPanic ==
    /\ selPc = "panicked"
    /\ producer = "run"
    /\ AppPanic
    /\ UNCHANGED <<formIdx, createResult, sent>>
    /\ UNCHANGED <<writerRest, decVars, feedVars, regVars, wrapVars, selVars, promptVars, exitVars, relayVars>>

\* The transport adapter sends one decoded event into the channel of
\* capacity 1, in a session.  The typist does not type ahead of a display
\* that is more than MaxLag commands behind.
SessionType(ev) ==
    /\ inputOpen
    /\ Len(input) < 1
    /\ Len(queue) < MaxLag
    /\ input' = Append(input, ev)
    /\ sent' = sent + 1
    /\ UNCHANGED <<appPc, formIdx, createResult, inputOpen>>
    /\ UNCHANGED <<pipeVars, decVars, feedVars, regVars, wrapVars, selState, promptVars, exitVars, relayVars>>

\* ========================================================================
\* SPECIFICATIONS
\* ========================================================================

\* The decoder at rest (in the specifications of the other parts).
IdleDecoder == InitDecoder

\* The pipeline at rest (in the specifications of the other parts).
IdlePipe ==
    /\ InitPipe
    /\ outKind = "ssh"

\* The select not started (in the specifications of the other parts).
IdleSelect ==
    /\ InitSelect
    /\ options = <<1>>
    /\ row_height = 1
    /\ overflowChecks = TRUE

\* No controller (in the specifications of the parts).
IdleApp ==
    /\ appPc = "none"
    /\ formIdx = 0
    /\ createResult = "none"
    /\ sent = 0

\* No feed history (in the specifications of the other parts).
IdleFeed == InitFeed

\* No text wrapped (in the specifications of the other parts).
IdleWrap == InitWrap

\* No registry server (in the specifications of the other parts).
IdleRegistry == InitRegistry

\* No relay (in the specifications of the other parts).
IdleRelay ==
    /\ InitRelay

\* The prompt not started (in the specifications of the other parts).
IdlePrompt ==
    /\ InitPrompt
    /\ required = TRUE
    /\ typist = "free"

Init ==
    /\ InitPipe
    /\ IdleDecoder
    /\ IdleSelect
    /\ IdlePrompt
    /\ IdleRelay
    /\ IdleApp
    /\ IdleFeed
    /\ IdleRegistry
    /\ IdleWrap

Next ==
    \/ \E c \in Payloads : WriterWrite(c)
    \/ WriterFlush
    \/ WorkerRecv
    \/ WorkerExit
    \/ WorkerApply
    \/ WriterWait
    \/ WriterJoin
    \/ ExitCallback
    \/ ExitYield

Spec == Init /\ [][Next]_vars

InitDec ==
    /\ IdlePipe
    /\ InitDecoder
    /\ IdleSelect
    /\ IdlePrompt
    /\ IdleRelay
    /\ IdleApp
    /\ IdleFeed
    /\ IdleRegistry
    /\ IdleWrap

NextDecoder ==
    \/ \E b \in Bytes : ReceiveByte(b)
    \/ \E chunk \in TypedTogether : ReceiveTyped(chunk)
    \/ DecodeChunk
    \/ ClearChunk

SpecDecoder == InitDec /\ [][NextDecoder]_vars

InitSel ==
    /\ IdlePipe
    /\ IdleDecoder
    /\ InitSelect
    /\ IdlePrompt
    /\ IdleRelay
    /\ IdleApp
    /\ IdleFeed
    /\ IdleRegistry
    /\ IdleWrap

NextSelect ==
    \/ SelectStart
    \/ \E code \in KeyCodes : FeedEvent(code)
    \/ CloseInput
    \/ SelectRecv
    \/ SelectInputClosed

SpecSelect == InitSel /\ [][NextSelect]_vars

InitPr ==
    /\ IdlePipe
    /\ IdleDecoder
    /\ IdleSelect
    /\ InitPrompt
    /\ IdleRelay
    /\ IdleApp
    /\ IdleFeed
    /\ IdleRegistry
    /\ IdleWrap

\* The transport adapter sends the next decoded event: any key (up to MaxKeys
\* of them), or the next keystroke of "Jane Doe", Enter.
NextPrompt ==
    \/ PromptStart
    \/ \E code \in PromptKeys :
          /\ typist = "free"
          /\ KeysSent < MaxKeys
          /\ FeedEvent(code)
    \/ /\ typist = "jane"
       /\ KeysSent < Len(JaneKeys)
       /\ FeedEvent(JaneKeys[KeysSent + 1])
    \/ /\ typist = "cafe"
       /\ KeysSent < Len(CafeKeys)
       /\ FeedEvent(CafeKeys[KeysSent + 1])
    \/ CloseInput
    \/ PromptRecv
    \/ PromptInputClosed

SpecPrompt == InitPr /\ [][NextPrompt]_vars

InitRel ==
    /\ IdlePipe
    /\ IdleDecoder
    /\ IdleSelect
    /\ IdlePrompt
    /\ InitRelay
    /\ IdleApp
    /\ IdleFeed
    /\ IdleRegistry
    /\ IdleWrap

\* The relay, the typist and the remote command, and the writer's worker
\* applying what the relay prints.
NextRelay ==
    \/ RelayOpen
    \/ \E ev \in RelayKeys :
          /\ Len(relayTaken) + Len(input) < MaxRelayKeys
          /\ FeedEvent(ev)
    \/ CloseInput
    \/ RelayTake
    \/ RelaySend
    \/ \E d \in Payloads : RelayRemoteData(d)
    \/ RelayRemoteOther
    \/ RelayExitStatus
    \/ RelayRemoteClosed
    \/ RelayAllDisabled
    \/ RelayTimeout
    \/ WorkerRecv
    \/ WorkerApply

SpecRelay == InitRel /\ [][NextRelay]_vars

InitFd ==
    /\ IdlePipe
    /\ IdleDecoder
    /\ IdleSelect
    /\ IdlePrompt
    /\ IdleRelay
    /\ IdleApp
    /\ InitFeed
    /\ IdleRegistry
    /\ IdleWrap

NextFeed ==
    \/ \E chunk \in FeedChunks : FeedChunk(chunk)
    \/ FeedSend
    \/ FeedSendFails
    \/ ReaderRecv
    \/ ReaderHandOver
    \/ ReaderExit
    \/ ReaderGone

SpecFeed == InitFd /\ [][NextFeed]_vars

InitReg ==
    /\ IdlePipe
    /\ IdleDecoder
    /\ IdleSelect
    /\ IdlePrompt
    /\ IdleRelay
    /\ IdleApp
    /\ IdleFeed
    /\ InitRegistry
    /\ IdleWrap

NextRegistry ==
    \E s \in Sessions :
        \/ NewClient(s)
        \/ OpenRequest(s)
        \/ \E bytes \in DataOf(s) : DataRequest(s, bytes)
        \/ CloseRequest(s)
        \/ ChannelOpen(s)
        \/ DataLock(s)
        \/ DataSend(s)
        \/ DataReturn(s)
        \/ ChannelClose(s)
        \/ ClientRecv(s)

SpecRegistry == InitReg /\ [][NextRegistry]_vars

InitWr ==
    /\ IdlePipe
    /\ IdleDecoder
    /\ IdleSelect
    /\ IdlePrompt
    /\ IdleRelay
    /\ IdleApp
    /\ IdleFeed
    /\ IdleRegistry
    /\ InitWrap

NextWrap ==
    \/ \E piece \in WrapPieces : WrapAppend(piece)
    \/ WrapExample
    \/ WrapWiden
    \/ WrapCall

SpecWrap == InitWr /\ [][NextWrap]_vars

\* A session as the SSH server starts it: the writer over the TerminalHandle,
\* no select, prompt or relay entered yet, a terminal of MaxRows rows.
InitSession ==
    /\ IdlePipe
    /\ IdleDecoder
    /\ options = <<>>
    /\ row_height = MaxRows
    /\ overflowChecks \in BOOLEAN
    /\ index = 0
    /\ scroll_pos = 0
    /\ selPc = "none"
    /\ shown = <<>>
    /\ moveUp = -1
    /\ input = <<>>
    /\ inputOpen = TRUE
    /\ selResult = -1
    /\ required = TRUE
    /\ inputText = <<>>
    /\ first_pass = TRUE
    /\ promptPc = "none"
    /\ rendered = <<"none">>
    /\ taken = <<>>
    /\ promptResult = <<>>
    /\ typist \in {"free", "submitter", "visitor"}
    /\ relayPc = "none"
    /\ relayHeld = NoEvent
    /\ forwarded = <<>>
    /\ relayTaken = <<>>
    /\ relayResult = "none"
    /\ remoteOpen = FALSE
    /\ remoteSent = <<>>
    /\ paramsLock = "free"
    /\ InitApp
    /\ IdleFeed
    /\ IdleRegistry
    /\ IdleWrap

\* The typist sends any key (up to MaxTyped of them), or the next keystroke
\* of the form's script, or Ctrl-C in its place, or the next keystroke of a
\* visit; the remote command's output comes in chunks of one byte.
NextSession ==
    \/ AppStart
    \/ MenuChoice
    \/ GalleryGet
    \/ GalleryChoice
    \/ RelayReturn
    \/ FormType
    \/ FormNext
    \/ Create
    \/ AppExit
    \/ AppSelectPanic
    \/ \E ev \in SessionKeys :
          /\ typist = "free"
          /\ sent < MaxTyped
          /\ SessionType(ev)
    \/ /\ typist = "submitter"
       /\ sent < Len(SubmitScript)
       /\ SessionType(SubmitScript[sent + 1])
    \/ /\ typist = "submitter"
       /\ sent < Len(SubmitScript)
       /\ SessionType(KeyEvent(<<3>>))
    \/ /\ typist = "visitor"
       /\ sent < Len(VisitScript)
       /\ SessionType(VisitScript[sent + 1])
    \/ SelectStart
    \/ SelectRecv
    \/ PromptStart
    \/ PromptRecv
    \/ RelayOpen
    \/ RelayTake
    \/ RelaySend
    \/ RelayRemoteData(<<1>>)
    \/ RelayExitStatus
    \/ RelayTimeout
    \/ WorkerRecv
    \/ WorkerApply
    \/ WorkerExit
    \/ WriterJoin
    \/ ExitCallback
    \/ ExitYield

\* The runtime schedules every task that can run: the worker, and the App
\* task inside exit().
SpecSession ==
    /\ InitSession
    /\ [][NextSession]_vars
    /\ WF_vars(WorkerRecv)
    /\ WF_vars(WorkerApply)
    /\ WF_vars(WorkerExit)
    /\ WF_vars(AppExit)
    /\ WF_vars(WriterJoin)
    /\ WF_vars(ExitCallback)

\* The client goes away while the submission form is being filled in: the SSH
\* handler is dropped and the sender of the event channel with it.  The App
\* task is not aborted by that (it was spawned, and dropping its JoinHandle
\* detaches it).
FormInputCloses ==
    /\ appPc \in {"form_type", "form"}
    /\ CloseInput

\* A session whose client may go away during the submission form.
NextForm ==
    \/ NextSession
    \/ FormInputCloses
    \/ SelectInputClosed
    \/ PromptInputClosed

SpecForm == InitSession /\ [][NextForm]_vars

\* ========================================================================
\* CLAIMS: OUTPUT PIPELINE (checked under Spec)
\* ========================================================================

\* What a command list must deliver: one buffer per Flush, holding the Write
\* payloads since the previous Flush, concatenated in order.
RECURSIVE FlushGroups(_, _, _)
FlushGroups(cmds, open, done) ==
    IF cmds = <<>> THEN done
    ELSE IF Head(cmds).tag = "Flush"
    THEN FlushGroups(Tail(cmds), <<>>, Append(done, open))
    ELSE FlushGroups(Tail(cmds), open \o Head(cmds).c, done)

ExpectedDeliveries(cmds) == FlushGroups(cmds, <<>>, <<>>)

NumFlush(cmds) == Cardinality({k \in 1..Len(cmds) : cmds[k].tag = "Flush"})

\* The bytes of the Write payloads of a command list, in order.
RECURSIVE BytesOf(_)
BytesOf(cmds) ==
    IF cmds = <<>> THEN <<>> ELSE Head(cmds).c \o BytesOf(Tail(cmds))

\* C1: over the SSH sink (TerminalHandle), in every reachable state of every
\* interleaving of submissions and worker steps, the transport has received
\* exactly one delivery per Flush the worker has applied, and the k-th
\* delivery is exactly the concatenation of the Write payloads submitted
\* between the (k-1)-th and the k-th Flush; once every submitted command is
\* applied the deliveries are exactly those of the submitted list.
C1_OneDeliveryPerFlush ==
    outKind = "ssh" =>
        /\ Len(delivered) = NumFlush(applied)
        /\ IsPrefix(delivered, ExpectedDeliveries(submitted))
        /\ (applied = submitted => delivered = ExpectedDeliveries(submitted))

\* C1 witness: [Write(a), Write(b), Flush, Write(c), Flush] was submitted and
\* applied, and the transport saw exactly a+b, then c.
C1_Witness ==
    /\ outKind = "ssh"
    /\ submitted = << Data(<<1>>), Data(<<2, 3>>), Flush, Data(<<1>>), Flush >>
    /\ applied = submitted
    /\ delivered = << <<1, 2, 3>>, <<1>> >>

\* C2, as claimed: while the transport has not failed, the commands the
\* worker has applied are a prefix of the commands submitted, and the bytes
\* the transport took are all the bytes of the applied Write payloads (no
\* command and no byte dropped).
C2_NothingDropped ==
    worker # "panicked" =>
        /\ IsPrefix(applied, submitted)
        /\ written = BytesOf(applied)

\* C3: while the producer holds its handle and the worker is alive, a Write
\* of any payload and a Flush can each be taken at once, whatever the queue
\* length and whether the worker is waiting in recv or busy inside the
\* transport call; the step only appends the command to the queue and leaves
\* the worker and the transport as they are.
C3_SubmitNeverWaits ==
    (producer = "run" /\ RecvAlive /\ attempts < MaxCmds) =>
        /\ \A c \in Payloads :
              ENABLED (/\ WriterWrite(c)
                       /\ queue' = Append(queue, Data(c))
                       /\ lastSubmit' = "ok"
                       /\ UNCHANGED <<worker, cur, sink, delivered>>)
        /\ ENABLED (/\ WriterFlush
                    /\ queue' = Append(queue, Flush)
                    /\ lastSubmit' = "ok"
                    /\ UNCHANGED <<worker, cur, sink, delivered>>)

\* C3 witness: a submit succeeded while the worker was inside a transport
\* call and three commands were already queued.
C3_Witness ==
    /\ lastSubmit = "ok"
    /\ sawWorker = "busy"
    /\ worker = "busy"
    /\ cur.tag = "Flush"
    /\ Len(queue) >= 4

\* C4: when wait() has returned, every submitted command has been applied and
\* the worker has exited; and the worker has exited only with the queue empty
\* and the sender dropped.
C4_WaitMeansDrained ==
    /\ producer = "done" => (applied = submitted /\ worker = "exited")
    /\ worker = "exited" => (queue = <<>> /\ sender = "none")

\* C4 witness: wait() returned although three commands were still pending
\* when it was called.
C4_Witness ==
    /\ producer = "done"
    /\ pendingAtWait >= 3
    /\ Len(applied) >= 3

\* C5, as claimed: once the transport has failed (the worker is gone), no
\* further command is applied or delivered, and every later call of write()
\* or flush() returns a send error to its caller.
C5_SubmitAfterFailureReturnsError ==
    [][worker = "panicked" =>
          /\ applied' = applied
          /\ delivered' = delivered
          /\ (attempts' # attempts => lastSubmit' = "send_error")]_vars

\* C15: over every run the exit callback is invoked at most once, and the
\* step that invokes it starts in a state where every command submitted has
\* been applied to the transport and the worker has exited (wait() drained
\* the writer first); nothing is submitted after it.
C15_ExitOnceAfterDrain ==
    [][ /\ exitCalls' <= 1
        /\ exitCalls' # exitCalls =>
              /\ exitCalls = 0
              /\ exit_fn_once = "some" /\ exit_fn_once' = "none"
              /\ applied = submitted
              /\ queue = <<>>
              /\ worker = "exited"
        /\ exitCalls = 1 => submitted' = submitted
      ]_vars

\* C15 witness: the exit callback was invoked once, after a wait() that found
\* at least two commands still pending.
C15_Witness ==
    /\ exitCalls = 1
    /\ exit_fn_once = "none"
    /\ pendingAtWait >= 2
    /\ Len(applied) >= 3

\* ========================================================================
\* CLAIMS: INPUT DECODER (checked under SpecDecoder)
\* ========================================================================

\* The key codes of an event list, in order.
CodesOf(evs) == [k \in 1..Len(evs) |-> evs[k].ascii_code]

\* The raw bytes of an event list, concatenated in order.
RECURSIVE RawOf(_)
RawOf(evs) ==
    IF evs = <<>> THEN <<>> ELSE Head(evs).raw_bytes \o RawOf(Tail(evs))

\* There is a byte 27 immediately followed by a byte 91.
HasEscBracket(chunk) ==
    \E k \in 1..(Len(chunk) - 1) : chunk[k] = 27 /\ chunk[k + 1] = 91

\* The table of the claim, byte by byte: the codes one byte stands for (none
\* for a control byte other than 3, 8 and 13).
ClaimedCodes(b) ==
    IF b = 13 THEN << <<"Enter">> >>
    ELSE IF b = 8 \/ b = 127 THEN << <<"Backspace">> >>
    ELSE IF b = 3 THEN << <<"EoT">> >>
    ELSE IF b > 31 THEN << <<"Char", b>> >>
    ELSE <<>>

RECURSIVE ClaimedCodesOfChunk(_)
ClaimedCodesOfChunk(chunk) ==
    IF chunk = <<>> THEN <<>>
    ELSE ClaimedCodes(Head(chunk)) \o ClaimedCodesOfChunk(Tail(chunk))

\* C6: a chunk without ESC [ decodes byte by byte to the codes of the table
\* (13 Enter, 8 and 127 Backspace, 3 EndOfTransmission, no event for any other
\* control byte, a lone ESC included, PrintableByte for the rest); a chunk
\* that is ESC [ x decodes to exactly one event, ArrowUp for x = 65, ArrowDown
\* for x = 66 and Unrecognized (no key code) for any other x; so the four
\* decodings the specification lists come out as listed.
C6_DecoderTable ==
    decPc = "decoded" =>
        /\ ~HasEscBracket(data) => CodesOf(events) = ClaimedCodesOfChunk(data)
        /\ (Len(data) = 3 /\ data[1] = 27 /\ data[2] = 91) =>
              CodesOf(events) =
                  << IF data[3] = 65 THEN <<"ArrowUp">>
                     ELSE IF data[3] = 66 THEN <<"ArrowDown">>
                     ELSE <<"None">> >>
        /\ data = <<13>> => CodesOf(events) = << <<"Enter">> >>
        /\ data = <<127, 127>> =>
              CodesOf(events) = << <<"Backspace">>, <<"Backspace">> >>
        /\ data = <<27, 91, 65>> => CodesOf(events) = << <<"ArrowUp">> >>
        /\ data = <<27, 91, 67>> => CodesOf(events) = << <<"None">> >>

\* C6 witness: the chunk [8, 27, 13] was decoded to Backspace, Enter (the
\* lone ESC gave no event).
C6_Witness ==
    /\ decPc = "decoded"
    /\ data = <<8, 27, 13>>
    /\ CodesOf(events) = << <<"Backspace">>, <<"Enter">> >>

\* The k-th event comes from the k-th byte, one event per byte.
OneEventPerByte ==
    /\ Len(events) = Len(data)
    /\ \A k \in 1..Len(data) : events[k].raw_bytes = <<data[k]>>

\* C7, as claimed: every chunk without ESC [ decodes to exactly one event per
\* input byte, the k-th event produced by the k-th byte.
C7_OneEventPerByteAnyChunk ==
    (decPc = "decoded" /\ ~HasEscBracket(data)) => OneEventPerByte

\* No control byte the decoder drops: the only bytes in 0..31 are 3, 8, 13.
NoDroppedControl(chunk) ==
    \A k \in 1..Len(chunk) : chunk[k] <= 31 => chunk[k] \in {3, 8, 13}

\* C7, amended: every chunk without ESC [ and without a control byte other
\* than 3, 8 and 13 decodes to exactly one event per input byte, the k-th
\* event carrying the k-th byte as its raw bytes; the chunk can therefore be
\* read back from its events, so two different such chunks never decode to
\* the same event sequence.
C7_OneEventPerKeptByte ==
    (decPc = "decoded" /\ ~HasEscBracket(data) /\ NoDroppedControl(data)) =>
        /\ OneEventPerByte
        /\ RawOf(events) = data

\* C7 witness: [8, 127, 255] was decoded to three events, the Backspace of
\* byte 8 and the Backspace of byte 127 told apart by their raw bytes.
C7_Witness ==
    /\ decPc = "decoded"
    /\ data = <<8, 127, 255>>
    /\ Len(events) = 3
    /\ events[1] # events[2]

\* The chunk begins with ESC [ and a final byte (64..126).
BeginsWithCsi(chunk) ==
    /\ Len(chunk) >= 3
    /\ chunk[1] = 27
    /\ chunk[2] = 91
    /\ chunk[3] \in 64..126

\* C26, as claimed: a chunk that begins with ESC [ x, x a final byte, decodes
\* to the event of ESC [ x (ArrowUp for 65, ArrowDown for 66, Unrecognized
\* otherwise, with the three bytes as raw bytes) followed by the events of the
\* bytes after x, decoded on their own; so [27,91,65,27,91,66] gives ArrowUp,
\* ArrowDown and [27,91,66,13] gives ArrowDown, Enter.
C26_CsiEndsAtFinalByte ==
    decPc = "decoded" =>
        /\ BeginsWithCsi(data) =>
              events =
                  << TerminalCode(CsiCode(<<data[3]>>), SubSeq(data, 1, 3)) >>
                  \o channel_data_to_terminal_codes(SubSeq(data, 4, Len(data)))
        /\ data = <<27, 91, 65, 27, 91, 66>> =>
              CodesOf(events) = << <<"ArrowUp">>, <<"ArrowDown">> >>
        /\ data = <<27, 91, 66, 13>> =>
              CodesOf(events) = << <<"ArrowDown">>, <<"Enter">> >>

\* The events' raw bytes are successive, disjoint spans of the chunk, in input
\* order, and every byte between two spans is a control byte other than 3, 8
\* and 13.
RECURSIVE RawSpansInOrder(_, _)
RawSpansInOrder(chunk, evs) ==
    IF chunk = <<>>
    THEN evs = <<>>
    ELSE \/ /\ evs # <<>>
            /\ Head(evs).raw_bytes # <<>>
            /\ IsPrefix(Head(evs).raw_bytes, chunk)
            /\ RawSpansInOrder(
                   SubSeq(chunk, Len(Head(evs).raw_bytes) + 1, Len(chunk)),
                   Tail(evs))
         \/ /\ chunk[1] <= 31
            /\ chunk[1] \notin {3, 8, 13}
            /\ RawSpansInOrder(Tail(chunk), evs)

\* One escape sequence: ESC [, then bytes none of which is a final byte
\* (64..126) except possibly the last one.
IsEscapeSequence(raw) ==
    /\ Len(raw) >= 2
    /\ raw[1] = 27
    /\ raw[2] = 91
    /\ \A k \in 3..(Len(raw) - 1) : raw[k] \notin 64..126

\* C27, as claimed: every event of a decoded chunk carries as raw bytes the
\* bytes that produced it, one whole escape sequence or one single byte; the
\* spans of successive events are disjoint and in input order, and together
\* they are the chunk without its dropped control bytes.
C27_RawBytesAreTheUnit ==
    decPc = "decoded" =>
        /\ RawSpansInOrder(data, events)
        /\ \A k \in 1..Len(events) :
              \/ Len(events[k].raw_bytes) = 1
              \/ IsEscapeSequence(events[k].raw_bytes)

\* The part of C27 that does not depend on where an escape sequence ends.
RawSpansCoverChunk ==
    decPc = "decoded" => RawSpansInOrder(data, events)

\* ========================================================================
\* CLAIMS: SINGLE SELECT (checked under SpecSelect)
\* ========================================================================

\* The step is one turn of the select's event loop: it takes the event at the
\* head of the channel.
TakesEvent == selPc = "waiting" /\ input # <<>> /\ input' = Tail(input)

\* The lines of all options together (the buffer without its empty last piece).
OptionLines == LinesBefore(options, Len(options))

\* C8: for a non-empty options list, the index is 0 when the select starts;
\* an ArrowUp takes it to index - 1, or leaves it at 0; an ArrowDown takes it
\* to index + 1, or leaves it at options.len() - 1; so it stays within
\* 0..options.len()-1; the first Enter taken makes the select return the
\* index reached, and once it has returned it takes no further event from the
\* channel and its result does not change.
C8_SelectKeys ==
    [][ /\ (selPc = "start" => index = 0)
        /\ (TakesEvent /\ Len(options) >= 1) =>
              /\ Head(input).ascii_code = <<"ArrowUp">> =>
                    index' = IF index = 0 THEN 0 ELSE index - 1
              /\ Head(input).ascii_code = <<"ArrowDown">> =>
                    index' = IF index = Len(options) - 1 THEN index ELSE index + 1
              /\ Head(input).ascii_code = <<"Enter">> =>
                    (selPc' = "returned" /\ selResult' = index /\ index' = index)
              /\ index' \in 0..(Len(options) - 1)
        /\ selPc = "returned" =>
              /\ selPc' = "returned"
              /\ selResult' = selResult
              /\ ~(input # <<>> /\ input' = Tail(input))
      ]_vars

\* C8 witness: on three options the select returned index 2 (two ArrowDown,
\* then Enter) and an event sent after that Enter is still in the channel.
C8_Witness ==
    /\ selPc = "returned"
    /\ Len(options) = 3
    /\ selResult = 2
    /\ Len(input) = 1
    /\ input[1].ascii_code = <<"ArrowUp">>
    /\ inputOpen

\* C9, as claimed: for every options list the controller can pass, the empty
\* one the gallery gets from an empty data store included, from the first
\* render on 0 <= selected_index < options.len(), and a returned index is a
\* position of options.
C9_IndexInRange ==
    selPc # "start" =>
        /\ 0 <= index
        /\ index < Len(options)
        /\ (selPc = "returned" => selResult \in 0..(Len(options) - 1))

\* C10: on a terminal of at least one row and fewer rows than the options
\* have lines, whenever the last option is the highlighted one after a render,
\* the rendered slice is not empty, its last line is the last line of the last
\* option, and it holds no line past the end of the list (on a terminal of
\* zero rows the slice is empty: nothing at all is shown).
C10_LastOptionEndsSlice ==
    /\ row_height < OptionLines =>
          \A k \in 1..Len(shown) : shown[k] # <<0, 0>>
    /\ ( /\ selPc = "waiting"
         /\ Len(options) >= 1
         /\ index = Len(options) - 1
         /\ row_height >= 1
         /\ row_height < OptionLines ) =>
            /\ shown # <<>>
            /\ shown[Len(shown)] = <<Len(options), options[Len(options)]>>

\* C10 witness: three options of two lines each on a terminal of four rows;
\* after two ArrowDown the last option is highlighted and the slice has
\* scrolled by two lines.
C10_Witness ==
    /\ selPc = "waiting"
    /\ options = <<2, 2, 2>>
    /\ row_height = 4
    /\ index = 2
    /\ scroll_pos = 2
    /\ moveUp = 3
    /\ shown = << <<2, 1>>, <<2, 2>>, <<3, 1>>, <<3, 2>> >>

\* C11, as claimed: on a terminal of fewer rows than the options have lines,
\* whenever the first option is the highlighted one after a render (the
\* initial render, or a render after ArrowUp brought the highlight back),
\* scroll_pos is 0 (stated for terminals of at least one row, where the slice
\* shows something).
C11_FirstOptionScrollZero ==
    ( /\ selPc = "waiting"
      /\ Len(options) >= 1
      /\ index = 0
      /\ row_height >= 1
      /\ row_height < OptionLines ) => scroll_pos = 0

\* The step ends with a render of the select: the initial render, or the
\* render that closes a turn of the event loop.
RendersSelect == (selPc = "start" \/ TakesEvent) /\ selPc' = "waiting"

\* First and last buffer line (0-based) of option number idx (0-based).
FirstLineOf(idx) == LinesBefore(options, idx)
LastLineOf(idx) == LinesBefore(options, idx + 1) - 1

\* With the slice starting at buffer line scroll, option idx is entirely
\* inside the slice.
FullyVisible(idx, scroll) ==
    /\ scroll <= FirstLineOf(idx)
    /\ LastLineOf(idx) < scroll + box_rows

Distance(a, b) == IF a >= b THEN a - b ELSE b - a

\* After the step the highlighted option is entirely inside the slice, and
\* scroll_pos moved no further than to the nearest value for which it is.
ScrolledJustEnough ==
    /\ FullyVisible(index', scroll_pos')
    /\ \A s \in 0..OptionLines :
          FullyVisible(index', s) =>
              Distance(scroll_pos', scroll_pos) <= Distance(s, scroll_pos)

\* C28, as claimed: after every render of the select (on a terminal of at
\* least one row, for a non-empty options list) the highlighted option is
\* entirely inside the rendered slice, and scroll_pos is the value closest to
\* its previous value for which this holds, so it does not change when the
\* highlighted option was already fully visible.
C28_HighlightedFullyVisible ==
    [][ (RendersSelect /\ Len(options) >= 1 /\ row_height >= 1) =>
            ScrolledJustEnough
      ]_vars

\* The part of C28 the render closure keeps: the same for a highlighted
\* option of at most box_rows lines.
FittingOptionFullyVisible ==
    [][ ( /\ RendersSelect
          /\ Len(options) >= 1
          /\ row_height >= 1
          /\ options[index' + 1] <= box_rows ) => ScrolledJustEnough
      ]_vars

\* C29, as claimed: every render (of a non-empty options list) emits at most
\* min(total, row_height) lines, total being the sum of the options' line
\* counts; on a terminal taller than the list exactly the options' lines are
\* emitted.
C29_AtMostViewportLines ==
    Len(options) >= 1 =>
        /\ Len(shown) <= Min(OptionLines, row_height)
        /\ (selPc # "start" /\ row_height > OptionLines) =>
              shown = OptionPieces(options, Len(options))

\* C29, amended: every render emits at most min(total + 1, row_height) pieces
\* of the buffer, total being the sum of the options' line counts and the
\* extra piece the empty one after the last "\r\n"; on a terminal of more rows
\* than the options have lines every render emits all the options' lines and
\* that empty piece after them (one additional, empty line), and on a terminal
\* of at most as many rows as the options have lines it emits at most
\* row_height pieces, all of them lines of options.
C29_AtMostBoxRowsPieces ==
    /\ Len(shown) <= Min(OptionLines + 1, row_height)
    /\ (selPc # "start" /\ row_height > OptionLines) =>
          shown = Append(OptionPieces(options, Len(options)), <<0, 0>>)
    /\ row_height <= OptionLines =>
          \A k \in 1..Len(shown) : shown[k] # <<0, 0>>

\* C29 witness: options of two lines and one line on a terminal of five rows,
\* rendered again after an ArrowDown: the three option lines and the empty
\* piece are emitted, the cursor having moved up three rows.
C29_Witness ==
    /\ selPc = "waiting"
    /\ options = <<2, 1>>
    /\ row_height = 5
    /\ index = 1
    /\ moveUp = 3
    /\ shown = << <<1, 1>>, <<1, 2>>, <<2, 1>>, <<0, 0>> >>

\* The event at the head of the channel is none of ArrowUp, ArrowDown, Enter
\* and EoT.
OtherEvent ==
    Head(input).ascii_code \notin
        { <<"ArrowUp">>, <<"ArrowDown">>, <<"Enter">>, <<"EoT">> }

\* The turn of the event loop ends with a render that changes neither the
\* index nor scroll_pos nor the slice drawn.
RedrawsTheSame ==
    /\ selPc' = "waiting"
    /\ index' = index
    /\ scroll_pos' = scroll_pos
    /\ shown' = shown

\* C30, as claimed: a turn of the select's event loop (non-empty options
\* list, terminal of at least one row) that takes an event other than ArrowUp,
\* ArrowDown, Enter and EoT renders again with index and scroll_pos unchanged,
\* so the slice drawn is the one drawn before, for options of any height.
C30_OtherEventsKeepSlice ==
    [][ (TakesEvent /\ OtherEvent /\ Len(options) >= 1 /\ row_height >= 1) =>
            RedrawsTheSame
      ]_vars

\* The part of C30 the render closure keeps: the same where the highlighted
\* option has at most box_rows lines.
OtherEventsKeepFittingSlice ==
    [][ ( /\ TakesEvent
          /\ OtherEvent
          /\ Len(options) >= 1
          /\ row_height >= 1
          /\ options[index + 1] <= box_rows ) => RedrawsTheSame
      ]_vars

\* The line breaks a render emits: its pieces are joined with "\r\n".
LineBreaksOf(slice) == IF slice = <<>> THEN 0 ELSE Len(slice) - 1

\* The step is a turn of the event loop that ends with a redraw.
Redraws == TakesEvent /\ selPc' = "waiting"

\* C31, as claimed: for every terminal height and options list, the rows the
\* cursor is moved up before a redraw are the line breaks the previous render
\* emitted, so the redraw starts on the row where the first render started.
C31_RedrawStartsAtFirstRow ==
    [][ Redraws => moveUp' = LineBreaksOf(shown) ]_vars

\* The part of C31 the code keeps: the same on a terminal of at least one row.
RedrawStartsAtFirstRowFromOneRow ==
    [][ (Redraws /\ row_height >= 1) =>
            /\ moveUp' = LineBreaksOf(shown)
            /\ LineBreaksOf(shown') = LineBreaksOf(shown)
      ]_vars

\* ========================================================================
\* CLAIMS: LINE PROMPT (checked under SpecPrompt)
\* ========================================================================

\* The step is one turn of the prompt's inner loop and the event it takes is
\* an Enter.
TakesEnter ==
    /\ promptPc = "waiting"
    /\ input # <<>>
    /\ Head(input).ascii_code = <<"Enter">>
    /\ taken' = Append(taken, <<"Enter">>)

\* C12: for every sequence of input events, the closing of the event source
\* included, a prompt called with required = true that has returned has
\* returned a non-empty text; and an Enter taken while the text is empty does
\* not commit: the required-field warning is rendered, the text stays empty,
\* nothing is returned and the prompt is waiting in recv again.
C12_RequiredNeverEmpty ==
    [][ /\ (required' /\ promptPc' = "returned") => promptResult' # <<>>
        /\ (required /\ inputText = <<>> /\ TakesEnter) =>
              /\ promptPc' = "waiting"
              /\ rendered' = <<"warning">>
              /\ inputText' = <<>>
              /\ promptResult' = promptResult
      ]_vars

\* C12 witness: a required prompt took an Enter on the empty text, then 'a',
\* then an Enter, and returned "a".
C12_Witness ==
    /\ required
    /\ promptPc = "returned"
    /\ taken = << <<"Enter">>, <<"Char", 97>>, <<"Enter">> >>
    /\ promptResult = <<97>>

\* Every event of the list is an Enter.
OnlyEnter(evs) == \A k \in 1..Len(evs) : evs[k] = <<"Enter">>

\* C13: a prompt called with required = true that has received only Enter
\* events (its text is empty at each of them) has not returned and has
\* produced no value, however many such events it received and whether or
\* not the event source was closed after them.
C13_OnlyEnterNeverReturns ==
    (required /\ OnlyEnter(taken)) =>
        /\ promptPc \in {"start", "waiting"}
        /\ promptResult = <<>>
        /\ inputText = <<>>

\* C13 witness: a required prompt took three Enter events and nothing else;
\* it shows the warning and waits.
C13_Witness ==
    /\ required
    /\ Len(taken) >= 3
    /\ OnlyEnter(taken)
    /\ promptPc = "waiting"
    /\ rendered = <<"warning">>

\* The table of the claim: what one event does to the text.
ClaimedStep(text, code) ==
    IF code[1] = "Char" /\ 32 <= code[2] /\ code[2] <= 126
    THEN text \o <<code[2]>>
    ELSE IF code = <<"Backspace">> /\ Len(text) > 0
    THEN [k \in 1..(Len(text) - 1) |-> text[k]]
    ELSE text

\* The events of the list applied in order, from the left.
RECURSIVE ClaimedText(_, _)
ClaimedText(evs, text) ==
    IF evs = <<>> THEN text
    ELSE ClaimedText(Tail(evs), ClaimedStep(text, Head(evs)))

\* No event of the list is the Char of a byte outside printable ASCII.
OnlyAsciiChars(evs) ==
    \A k \in 1..Len(evs) :
        evs[k][1] = "Char" => (32 <= evs[k][2] /\ evs[k][2] <= 126)

\* C14: for event sequences of printable ASCII bytes, Backspace, Enter, arrow
\* and unrecognized events, the text the prompt holds, and the text it
\* returns (the value submission_form stores in the FormData field), is the
\* result of applying in order every event received: a printable byte appends
\* its character, a Backspace removes the last character (an empty text stays
\* empty), every other event leaves the text as it is; so the prompt that
\* received the keystrokes of "Jane Doe" and then Enter returned "Jane Doe".
C14_TextFollowsEvents ==
    /\ (promptPc \in {"waiting", "returned"} /\ OnlyAsciiChars(taken)) =>
          inputText = ClaimedText(taken, <<>>)
    /\ (promptPc = "returned" /\ OnlyAsciiChars(taken)) =>
          promptResult = ClaimedText(taken, <<>>)
    /\ (promptPc = "returned" /\ taken = CodesOf(JaneKeys)) =>
          promptResult = JaneDoe

\* C14 witness: the name prompt (required) took the nine events of
\* "Jane Doe", Enter and returned "Jane Doe".
C14_Witness ==
    /\ required
    /\ typist = "jane"
    /\ promptPc = "returned"
    /\ Len(taken) = 9
    /\ promptResult = <<74, 97, 110, 101, 32, 68, 111, 101>>

\* The bytes of the Char events among the codes taken, in order.
RECURSIVE CharBytesOf(_)
CharBytesOf(codes) ==
    IF codes = <<>> THEN <<>>
    ELSE IF Head(codes)[1] = "Char"
    THEN <<Head(codes)[2]>> \o CharBytesOf(Tail(codes))
    ELSE CharBytesOf(Tail(codes))

\* The text assembled from a byte sequence by UTF-8 validation: an ASCII byte
\* is a character, a lead byte 194..223 followed by a continuation byte
\* 128..191 is a character of two bytes, any other byte is ignored (longer
\* forms are not typed here).
RECURSIVE Utf8Assemble(_)
Utf8Assemble(bytes) ==
    IF bytes = <<>> THEN <<>>
    ELSE IF bytes[1] <= 127
    THEN <<bytes[1]>> \o Utf8Assemble(Tail(bytes))
    ELSE IF Len(bytes) >= 2 /\ bytes[1] \in 194..223 /\ bytes[2] \in 128..191
    THEN <<bytes[1], bytes[2]>> \o Utf8Assemble(SubSeq(bytes, 3, Len(bytes)))
    ELSE IF Len(bytes) = 1 /\ bytes[1] \in 194..223
    THEN <<>>
    ELSE Utf8Assemble(Tail(bytes))

\* C32, as claimed: as long as no Backspace was typed, the entered text of a
\* prompt is the printable bytes received, reassembled: every ASCII character
\* and every valid multi-byte character whose bytes arrived as consecutive
\* events is in it, and only the bytes that are not valid UTF-8 are left out.
C32_MultiByteAssembled ==
    (promptPc \in {"waiting", "returned"}
        /\ \A k \in 1..Len(taken) : taken[k] # <<"Backspace">>) =>
        inputText = Utf8Assemble(CharBytesOf(taken))

\* ========================================================================
\* CLAIMS: SESSION RELAY (checked under SpecRelay)
\* ========================================================================

\* The raw bytes of the events the relay took, one data message per event.
RawOfTaken == [k \in 1..Len(relayTaken) |-> relayTaken[k].raw_bytes]

\* What the remote channel received is what the relay took: all of it while
\* the relay waits in its loop, all but the event being sent while it sends.
RelayInSync ==
    /\ IsPrefix(forwarded, RawOfTaken)
    /\ relayPc = "loop" => forwarded = RawOfTaken
    /\ relayPc = "sending" =>
          /\ Len(forwarded) = Len(relayTaken) - 1
          /\ relayHeld = relayTaken[Len(relayTaken)]

\* C20: while a relay is active, the data messages the remote channel has
\* received are exactly the raw bytes of the events the relay took from the
\* event channel, one message per event, in arrival order, Unrecognized and
\* EoT events included; and the step that takes an event, whatever the event
\* is, only starts sending it: it ends neither the relay nor the session,
\* invokes no exit callback and prints nothing locally.
C20_RelayForwardsVerbatim ==
    [][ /\ RelayInSync'
        /\ relayTaken' # relayTaken =>
              /\ relayTaken' = Append(relayTaken, Head(input))
              /\ relayPc' = "sending"
              /\ relayResult' = "none"
              /\ UNCHANGED <<producer, exitCalls, queue, submitted, selPc,
                             promptPc>>
        /\ (relayPc = "sending" /\ relayPc' = "loop") =>
              forwarded' = Append(forwarded, relayHeld.raw_bytes)
      ]_vars

\* C20 witness: the relay took EoT (Ctrl-C), an unrecognized escape sequence
\* and 'a'; the remote channel received the three byte spans in that order
\* and the relay is still in its loop.
C20_Witness ==
    /\ relayPc = "loop"
    /\ relayResult = "none"
    /\ forwarded = << <<3>>, <<27, 91, 67>>, <<97>> >>
    /\ Len(relayTaken) = 3
    /\ relayTaken[1].ascii_code = <<"EoT">>
    /\ producer = "run"

\* C21, as claimed: the relay's loop has ended once the remote channel has
\* closed: the relay never stands at its select! (waiting for input or for
\* the timeout) with the remote channel closed.
C21_LoopEndsAtRemoteClose == relayPc = "loop" => remoteOpen

\* The step is the timeout of a relay that has not ended.
TimeoutStep == relayResult = "none" /\ relayResult' = "timeout"

\* C22: the timeout can fire wherever the call waits (at select! for input
\* or remote events, or in a pending forward) as long as the relay has not
\* ended; the step that fires it ends the call with the result "timeout",
\* which is neither an error nor a panic (the producer goes on as it was),
\* drops the event of a pending forward, forwards and prints nothing, and
\* leaves the remote connection dropped.
C22_TimeoutCancelsCall ==
    [][ /\ RelayRunning => ENABLED RelayTimeout
        /\ TimeoutStep =>
              /\ RelayRunning
              /\ relayPc' = "done"
              /\ relayHeld' = NoEvent
              /\ ~remoteOpen'
              /\ UNCHANGED <<producer, exitCalls, forwarded, queue, submitted,
                             input, relayTaken>>
      ]_vars

\* C22 witness: the timeout fired while a forward was pending: the event was
\* taken and never reached the remote channel.
C22_Witness ==
    /\ relayPc = "done"
    /\ relayResult = "timeout"
    /\ Len(relayTaken) = 2
    /\ Len(forwarded) = 1
    /\ ~remoteOpen
    /\ producer = "run"

\* One Write of each payload, each followed by one Flush, in order.
RECURSIVE WriteFlushOf(_)
WriteFlushOf(msgs) ==
    IF msgs = <<>> THEN <<>>
    ELSE <<Data(Head(msgs)), Flush>> \o WriteFlushOf(Tail(msgs))

\* What the relay has submitted to the writer is one Write of exactly the
\* bytes of each Data message of the remote, followed by one Flush, in the
\* remote's order (of the message at which a dead writer panicked the relay,
\* nothing); the SSH transport has received these payloads one delivery each,
\* in that order, as far as the worker has come, and all of them once it has
\* applied every command.
WrittenThrough ==
    /\ submitted =
          WriteFlushOf(IF relayResult = "panic" /\ worker = "panicked"
                       THEN SubSeq(remoteSent, 1, Len(submitted) \div 2)
                       ELSE remoteSent)
    /\ IsPrefix(delivered, remoteSent)
    /\ Len(delivered) = NumFlush(applied)
    /\ applied = submitted => delivered = remoteSent \/ relayResult = "panic"

\* C34: while a relay is active each Data message of the remote is submitted
\* to the writer as one Write of exactly its bytes followed by one Flush, so
\* the SSH transport receives one delivery per remote message, in the
\* remote's order (as far as the worker has come: a failed transport receives
\* no more); and once the relay has ended, by the exit-status message or
\* otherwise, nothing more is forwarded to the remote, nothing more of the
\* remote is submitted and no remote message is taken.
C34_RemoteDataWrittenThrough ==
    [][ /\ WrittenThrough'
        /\ relayPc = "done" =>
              /\ forwarded' = forwarded
              /\ submitted' = submitted
              /\ remoteSent' = remoteSent
              /\ relayPc' = "done"
      ]_vars

\* C34 witness: the remote sent [1], then [2, 3], then its exit status; two
\* keystrokes were forwarded meanwhile; the worker has applied everything and
\* the transport received [1] and [2, 3], and a key typed after the exit is
\* left in the channel.
C34_Witness ==
    /\ relayPc = "done"
    /\ relayResult = "exit"
    /\ remoteSent = << <<1>>, <<2, 3>> >>
    /\ submitted = << Data(<<1>>), Flush, Data(<<2, 3>>), Flush >>
    /\ applied = submitted
    /\ delivered = << <<1>>, <<2, 3>> >>
    /\ Len(forwarded) = 2
    /\ Len(input) = 1

\* ========================================================================
\* CLAIMS: EVENT FEED (checked under SpecFeed)
\* ========================================================================

\* C23: the events taken from the channel are, in order and each once, the
\* first events that arrived; as long as the App holds the receiver and the
\* feeder lives, the events that arrived are exactly those taken, then the
\* one the channel holds, then those the feeder has still to send (none is
\* lost, duplicated or reordered); and once the relay reads, no event is
\* taken by the controller any more: the events split at the hand-over.
C23_DeliveredInOrderOnce ==
    /\ IsPrefix(EventsOf(consumed), arrived)
    /\ (reader # "gone" /\ inputOpen) =>
          arrived = EventsOf(consumed) \o input \o feedPending
    /\ \A j, k \in 1..Len(consumed) :
          (j < k /\ consumed[j].by = "relay") => consumed[k].by = "relay"

\* C23 witness: ArrowDown and Enter arrived in one chunk and were taken by the
\* controller, 'a' and Enter arrived in the next chunk before the relay was
\* opened and were taken by the relay, in that order.
C23_Witness ==
    /\ Len(consumed) = 4
    /\ consumed[1] = Taken(KeyEvent(<<27, 91, 66>>), "controller")
    /\ consumed[2] = Taken(KeyEvent(<<13>>), "controller")
    /\ consumed[3] = Taken(KeyEvent(<<97>>), "relay")
    /\ consumed[4] = Taken(KeyEvent(<<13>>), "relay")
    /\ input = <<>>

\* ========================================================================
\* CLAIMS: FIXED-WIDTH WRAP (checked under SpecWrap)
\* ========================================================================

\* The lines of a String in which every line ends with "\r\n".
LinesOf(out) ==
    LET pieces == Split(out, CrLf)
    IN  SubSeq(pieces, 1, Len(pieces) - 1)

\* A word: no space in it.
IsWord(line) == \A k \in 1..Len(line) : line[k] # Space

\* The text is made of words separated by single spaces, on one line.
PlainText(text) ==
    /\ FirstAt(text, CrLf) = 0
    /\ \A k \in 1..Len(Split(text, <<Space>>)) :
          Split(text, <<Space>>)[k] # <<>>

\* C25, as claimed (for a text of words separated by single spaces and a
\* width of at least 1): no line fixed_width produces is longer than width unless
\* it is a single word longer than width, which then stands alone and
\* unmodified with no empty line before it; and "aa bb cc" at width 5 gives
\* exactly the lines "aa bb" and "cc".
C25_LinesFitWidth ==
    (wrapPc = "done" /\ PlainText(wrapInput) /\ wrapWidth >= 1) =>
        LET ls == LinesOf(wrapOutput)
        IN  /\ \A k \in 1..Len(ls) :
                  \/ Len(ls[k]) <= wrapWidth
                  \/ IsWord(ls[k])
            /\ \A k \in 1..(Len(ls) - 1) :
                  (IsWord(ls[k + 1]) /\ Len(ls[k + 1]) > wrapWidth)
                      => ls[k] # <<>>
            /\ (wrapInput = ExampleText /\ wrapWidth = 5) =>
                  ls = << <<97, 97, 32, 98, 98>>, <<99, 99>> >>

\* ========================================================================
\* CLAIMS: REGISTRY SERVER (checked under SpecRegistry)
\* ========================================================================

\* The handler of b holds the lock and cannot go on until b's controller
\* takes an event: it is in send on b's full channel.
StuckOnOwnQueue(b) ==
    /\ lock = b
    /\ handlerPc[b] = "data_send"
    /\ handlerPending[b] # <<>>
    /\ Len(clientChan[b]) >= 1

\* C24, as claimed: each session's channel holds only events of its own
\* bytes, and the handling of a session's channel-open, data or channel-close
\* event never waits on another session's queue: no handler waits for the
\* lock while the handler of another session holds it blocked on that
\* session's full queue.
C24_SessionsIsolated ==
    /\ \A s \in Sessions :
          \A k \in 1..Len(clientChan[s]) : clientChan[s][k] = <<"Char", ByteOf(s)>>
    /\ \A a, b \in Sessions :
          (a # b /\ WaitsForLock(a)) => ~StuckOnOwnQueue(b)

\* C36, as claimed: for any sequence of channel-open and channel-close events
\* of the connections, the map holds an entry under a connection's id exactly
\* while that connection has a session channel open; connected handlers have
\* different ids; and no close finds its entry missing (no handler panics on
\* the lookup).
C36_EntryWhileChannelOpen ==
    /\ \A s \in Sessions : (ClientAt(id[s]) # {}) <=> (channels[s] >= 1)
    /\ \A s \in Sessions : ClientAt(id[s]) \subseteq {s}
    /\ \A a, b \in Sessions :
          (a # b /\ id[a] # -1 /\ id[b] # -1) => id[a] # id[b]
    /\ \A s \in Sessions : handlerPc[s] # "panicked"

\* The part of C36 that holds whatever the connections do: ids are unique, an
\* entry is stored only under the id of the connection that opened it, and
\* none exists for a connection without an open channel.
RegistryKeysSound ==
    /\ \A s \in Sessions : ClientAt(id[s]) \subseteq {s}
    /\ \A a, b \in Sessions :
          (a # b /\ id[a] # -1 /\ id[b] # -1) => id[a] # id[b]
    /\ \A s \in Sessions : ClientAt(id[s]) # {} => channels[s] >= 1

\* ========================================================================
\* CLAIMS: SESSION CONTROLLER (checked under SpecSession)
\* ========================================================================

\* The step is a turn of the select's or of the prompt's loop that takes an
\* EoT event from the channel.
SelectTakesEoT ==
    /\ selPc = "waiting"
    /\ input # <<>>
    /\ Head(input).ascii_code = <<"EoT">>
    /\ input' = Tail(input)

PromptTakesEoT ==
    /\ promptPc = "waiting"
    /\ input # <<>>
    /\ Head(input).ascii_code = <<"EoT">>
    /\ input' = Tail(input)

\* An EoT was taken by a select or a prompt: the session is in exit().
TornDown == selPc = "exiting" \/ promptPc = "exiting"

\* C16: an EoT taken while a select or a prompt waits for input puts the
\* session into exit(): the select or prompt returns no value; from then on
\* no event is taken from the channel, nothing more is rendered or printed,
\* no form field is stored and the controller does not move; the exit
\* callback is invoked only once the writer is drained; and, the worker and
\* the App task being scheduled, the callback is eventually invoked, unless
\* the transport has failed (then wait() panics and the App task ends).
C16_EoTTearsDown ==
    /\ [][ /\ SelectTakesEoT => (selPc' = "exiting" /\ selResult' = -1)
           /\ PromptTakesEoT => (promptPc' = "exiting" /\ promptResult' = <<>>)
           /\ TornDown =>
                 /\ UNCHANGED <<selPc, promptPc, selResult, promptResult,
                                appPc, formIdx, createResult, shown, rendered,
                                inputText, index, submitted, relayPc>>
                 /\ ~(input # <<>> /\ input' = Tail(input))
                 /\ exitCalls' # exitCalls =>
                       (applied = submitted /\ worker = "exited")
         ]_vars
    /\ TornDown ~> (exitCalls = 1 \/ producer = "panicked")

\* C16 witness: the EoT was taken by the fifth prompt of the form (the
\* optional one), the writer was drained of what was still pending and the
\* exit callback was invoked, while the event typed after the EoT is still in
\* the channel.
C16_Witness ==
    /\ promptPc = "exiting"
    /\ formIdx = 5
    /\ exitCalls = 1
    /\ pendingAtWait >= 1
    /\ applied = submitted
    /\ input # <<>>

\* The step is the menu's turn after its select returned.
MenuTurn == appPc = "menu" /\ selPc = "returned" /\ selPc' # selPc

\* C17: when the menu's select returns Info (index 0), the controller
\* prints the Info text and a newline and presents the menu select again
\* (index 0, first render pending) with the session still running and no exit
\* callback invoked, however often Info was chosen before; and the controller
\* leaves the menu loop only when its select returned Gallery or Submit (a
\* teardown by EoT or a panic aside).
C17_InfoReturnsToMenu ==
    [][ /\ (MenuTurn /\ selResult = 0 /\ RecvAlive) =>
              /\ submitted' = submitted \o
                    <<Data(InfoText), Flush, Data(NewLine), Flush>>
              /\ appPc' = "menu"
              /\ selPc' = "start"
              /\ index' = 0
              /\ options' = MenuOptions
              /\ producer' = "run"
              /\ UNCHANGED <<exitCalls, sender>>
        /\ (appPc = "menu" /\ appPc' \notin {"menu", "panicked"}) =>
              /\ selPc = "returned"
              /\ \/ selResult = 1 /\ appPc' = "gallery_get"
                 \/ selResult = 2 /\ appPc' = "form_type"
      ]_vars

\* The number of times the text was submitted for printing.
TimesPrinted(text) ==
    Cardinality({k \in 1..Len(submitted) : submitted[k] = Data(text)})

\* C17 witness: Info was chosen three times in a row and the menu select
\* waits for input again.
C17_Witness ==
    /\ appPc = "menu"
    /\ selPc = "waiting"
    /\ TimesPrinted(InfoText) = 3
    /\ producer = "run"
    /\ exitCalls = 0

\* C18, as claimed: when a relay opened from the gallery has ended, by its
\* timeout or by the remote command's exit, the controller's next step
\* presents the menu select again (the session goes on) instead of leaving
\* for exit().
C18_RelayReturnsToMenu ==
    [][ ( /\ appPc = "relay"
          /\ relayPc = "done"
          /\ relayResult \in {"timeout", "exit"}
          /\ appPc' # appPc ) =>
            (appPc' = "menu" /\ selPc' = "start")
      ]_vars

C35_ParamsLockFreeWhileWaiting ==
    (selPc = "waiting" \/ promptPc = "waiting" \/ relayPc = "loop") =>
        paramsLock = "free"

\* The part of C35 the code keeps: the select and the prompt wait for input
\* with the mutex free.
ParamsLockFreeInSelectAndPrompt ==
    (selPc = "waiting" \/ promptPc = "waiting") => paramsLock = "free"

\* The step takes an Enter event from the channel.
TakesEnterEvent ==
    /\ input # <<>>
    /\ Head(input).ascii_code = <<"Enter">>
    /\ input' = Tail(input)

\* The input event source is closed and drained: recv() returns None.
InputGone == ~inputOpen /\ input = <<>>

\* C37, as claimed: a select or a prompt returns only in the step that takes
\* an Enter event; where the event source has closed while it waits, it does
\* not return (the index, or the text typed so far) and it does not render
\* again.
C37_ReturnsOnlyOnEnter ==
    [][ /\ (selPc = "waiting" /\ selPc' = "returned") => TakesEnterEvent
        /\ (promptPc = "waiting" /\ promptPc' = "returned") => TakesEnterEvent
        /\ (promptPc = "waiting" /\ InputGone) => rendered' = rendered
        /\ (selPc = "waiting" /\ InputGone) => shown' = shown
      ]_vars

\* A step that stores a field of the form: the type (FormType) or the text
\* of a prompt (FormNext).
StoresField ==
    \/ appPc = "form_type" /\ appPc' = "form"
    \/ appPc = "form" /\ promptPc = "returned" /\ appPc' \in {"form", "create"}

\* The step hands the record to the data store's create operation.
HandsToCreate == appPc = "form" /\ appPc' = "create"

\* The prompt that returned did so on an Enter event.
PromptCommitted == taken # <<>> /\ taken[Len(taken)] = <<"Enter">>

\* C33, as claimed: the form's prompts run in their one order, one field
\* after the other; create is invoked at most once in a session, only after
\* the last prompt, only when the prompts committed (once the input is closed
\* no later prompt takes an event, so all of them committed exactly when the
\* last one did), and every field other than address line 2 is stored
\* non-empty.
C33_CreateAfterAllCommitted ==
    [][ /\ formIdx' \in {formIdx, formIdx + 1}
        /\ formIdx' = formIdx + 1 =>
              (StoresField /\ required' = FormRequired[formIdx'])
        /\ HandsToCreate =>
              /\ formIdx = Len(FormRequired)
              /\ createResult = "none"
              /\ PromptCommitted
        /\ createResult # "none" => createResult' = createResult
        /\ (StoresField /\ appPc = "form" /\ FormRequired[formIdx]) =>
              promptResult # <<>>
      ]_vars

====
